---- MODULE Spec2Model ----
(***************************************************************************)
(* Model of the SimpleGraph task pipeline (simple_graphrag/simplegraph.py), *)
(* of the graph store (src/models/graph.py, src/models/relationship.py)    *)
(* and of the service layer that drives them (backend/graph_service.py).   *)
(*                                                                         *)
(* Two specifications are defined:                                         *)
(*   Spec       the coordinator: submit, cancel, the extract workers, the  *)
(*              merge worker and the service's editing operations;         *)
(*   SpecGraph  the graph store driven directly: add_entity,               *)
(*              add_relationship, Combiner and _apply_merge_result.        *)
(***************************************************************************)
EXTENDS Integers, Sequences, FiniteSets, TLC

VARIABLES
    systems,        \* heap of System objects: id -> class catalog; see SystemIds
    graph,          \* the canonical Graph (SimpleGraph.graph)
    tasks,          \* SimpleGraph.tasks: task id -> Task record
    task_queue,     \* SimpleGraph.task_queue (extract queue), FIFO of task ids
    merge_queue,    \* SimpleGraph.merge_queue, FIFO of task ids
    running,        \* SimpleGraph._running
    procs,          \* the asyncio worker tasks created by start(), by position
    events,         \* per task, the step labels handed to the progress callback
    hist,           \* history: enqueue order, merging order, submit-time catalog,
                    \* number of start() calls that created workers, the tasks
                    \* for which cancel_task returned True, those for which
                    \* it returned False in their merge stage, and per task
                    \* the delta _apply_merge_result was called with and what
                    \* that call added to the catalog
    ret,            \* outcome of the last store operation (return value / stats)
    relSum,         \* history: identity key -> sum of the incoming counts
    svc,            \* GraphService: auto-save switch, delayed saves, the file
    co,             \* start()/stop() at the grain of their awaits: _running,
                    \* _worker_tasks and _merge_worker_task by start() call,
                    \* the stop() calls waiting in gather, the worker loops
    search          \* SearchEngine: the texts of the graph it reads, the last
                    \* search_keyword call and the list it returned

vars == <<systems, graph, tasks, task_queue, merge_queue, running, procs,
          events, hist, ret, relSum, svc, co, search>>

pipelineVars == <<tasks, task_queue, merge_queue, running, procs, events, hist,
                  co, search>>

None == "None"

(***************************************************************************)
(* Bounds of the model.                                                    *)
(***************************************************************************)
MaxTasks == 2        \* tasks submitted in one run
MaxStoreOps == 3     \* store operations in one run of SpecGraph
MaxStarts == 2       \* calls of start() that create workers
MaxEdits == 1        \* editing operations of the service in one run
MaxRestarts == 3     \* calls of start() that create workers in SpecRestart
MaxLoad == 7         \* tasks submitted in one run of SpecRestart

(***************************************************************************)
(* Program constants.                                                      *)
(***************************************************************************)
max_concurrent_tasks == 3   \* number of extract workers (the default)
MinCount == 1               \* Relationship.count is kept >= 1

(***************************************************************************)
(* Strings.  str.upper() on the identifiers the model uses.                *)
(***************************************************************************)
Upper(s) ==
    CASE s = "a" -> "A"
      [] s = "b" -> "B"
      [] s = "p" -> "P"
      [] s = "q" -> "Q"
      [] s = "person" -> "PERSON"
      [] s = "Person" -> "PERSON"
      [] s = "app" -> "APP"
      [] s = "c" -> "C"
      [] s = "x" -> "X"
      [] s = "tool" -> "TOOL"
      [] s = "ghost" -> "GHOST"
      [] OTHER -> s

Max(x, y) == IF x >= y THEN x ELSE y

(***************************************************************************)
(* Relationship (src/models/relationship.py).                              *)
(***************************************************************************)
\* __post_init__: the count is clamped to at least 1
\* (Relationship_unclamped: the count is taken as given).
Relationship_unclamped(source, target, description, count, refer, semantic_times) ==
    [source |-> source, target |-> target, description |-> description,
     count |-> count, refer |-> refer, semantic_times |-> semantic_times]

Relationship(source, target, description, count, refer, semantic_times) ==
    [source |-> source, target |-> target, description |-> description,
     count |-> Max(MinCount, count), refer |-> refer,
     semantic_times |-> semantic_times]

\* set([r.upper() for r in refer])
ReferSet(refer) == {Upper(refer[i]) : i \in DOMAIN refer}

\* Relationship.__eq__ (and __hash__): the identity of a relationship.
RelEq(r1, r2) ==
    /\ Upper(r1.source) = Upper(r2.source)
    /\ Upper(r1.target) = Upper(r2.target)
    /\ r1.description = r2.description
    /\ ReferSet(r1.refer) = ReferSet(r2.refer)

\* Relationship.increment_count(additional_count, semantic_time=None)
increment_count(rel, additional_count, semantic_time) ==
    [rel EXCEPT !.count = Max(MinCount, @ + additional_count),
                !.semantic_times =
                    IF semantic_time # None THEN Append(@, semantic_time) ELSE @]

(***************************************************************************)
(* System: the class catalog.  A System value is a function from the       *)
(* uppercased class name to the set of property names of the class.        *)
(***************************************************************************)
EmptySystem == << >>

get_all_classes(sys) == DOMAIN sys

\* System.get_class_definition: the properties of the class, or None (here
\* NoDefinition, a value no class definition equals).
NoDefinition == {None}

get_class_definition(sys, class_name) ==
    IF Upper(class_name) \in DOMAIN sys THEN sys[Upper(class_name)]
    ELSE NoDefinition

\* System.add_class_definition: additive; a known class gets the union of the
\* properties.
add_class_definition(sys, class_name, properties) ==
    LET k == Upper(class_name) IN
    IF k \in DOMAIN sys
    THEN [sys EXCEPT ![k] = @ \cup properties]
    ELSE sys @@ (k :> properties)

\* System.add_property(class_name, prop)
add_property(sys, class_name, prop) ==
    LET k == Upper(class_name) IN
    IF k \in DOMAIN sys THEN [sys EXCEPT ![k] = @ \cup {prop}] ELSE sys

(***************************************************************************)
(* Graph (src/models/graph.py).                                            *)
(*   entities      : uppercased name -> [name, classes, properties];       *)
(*                   properties is the set of the property values, each    *)
(*                   <<class_name, property_name, value>>                  *)
(*   class_nodes   : set of uppercased node ids <<ENTITY, CLASS>>          *)
(*   relationships : set of Relationship records (a Python set, whose      *)
(*                   membership is decided by Relationship.__eq__)         *)
(*   adj           : _entity_relationships, as a set of pairs              *)
(***************************************************************************)
EmptyGraph ==
    [entities |-> << >>, class_nodes |-> {}, relationships |-> {}, adj |-> {}]

Entity(name, classes) == [name |-> name, classes |-> classes, properties |-> {}]

\* Entity.set_property_value(class_name, property_name, value, system): the
\* value is stored, in place of an earlier one, for a property that the class
\* declares in the system; for any other property the call raises, which its
\* callers catch with a warning, so that the entity is as it was.
set_property_value(sys, entity, class_name, property_name, value) ==
    IF /\ class_name \in entity.classes
       /\ Upper(class_name) \in DOMAIN sys
       /\ property_name \in sys[Upper(class_name)]
    THEN [entity EXCEPT !.properties =
             {p \in @ : ~(p[1] = class_name /\ p[2] = property_name)}
             \cup {<<class_name, property_name, value>>}]
    ELSE entity

\* ClassInstance.set_property for every value of the added entity: a later
\* value takes the place of the one the existing entity has.
merge_properties(existing, added) ==
    {p \in existing :
        ~\E q \in added : Upper(q[1]) = Upper(p[1]) /\ q[2] = p[2]} \cup added

\* Graph._create_or_update_class_node
create_or_update_class_node(g, entity_name, class_name) ==
    [g EXCEPT !.class_nodes = @ \cup {<<Upper(entity_name), Upper(class_name)>>}]

\* Entity.validate_against_system(system, strict=False): classes the system
\* does not define are dropped from the entity, and so are the values of
\* properties that the class does not declare.
validate_against_system(sys, entity) ==
    [entity EXCEPT
        !.classes = {c \in @ : Upper(c) \in DOMAIN sys},
        !.properties = {p \in @ : /\ Upper(p[1]) \in DOMAIN sys
                                  /\ p[2] \in sys[Upper(p[1])]}]

\* Graph.add_entity(entity, strict_validation=False)
\* (add_entity_replacing: an entity that exists is replaced by the new one).
add_entity_replacing(sys, g, entity0) ==
    LET entity == validate_against_system(sys, entity0)
        key == Upper(entity.name)
        nodes == {<<key, Upper(c)>> : c \in entity.classes}
    IN  IF key \in DOMAIN g.entities
        THEN [g EXCEPT !.entities[key] = entity,
                       !.class_nodes = @ \cup nodes]
        ELSE [g EXCEPT !.entities = @ @@ (key :> entity),
                       !.class_nodes = @ \cup nodes]

add_entity(sys, g, entity0) ==
    LET entity == validate_against_system(sys, entity0)
        key == Upper(entity.name)
        nodes == {<<key, Upper(c)>> : c \in entity.classes}
    IN  IF key \in DOMAIN g.entities
        THEN [g EXCEPT !.entities[key].classes = @ \cup entity.classes,
                       !.entities[key].properties =
                           merge_properties(@, entity.properties),
                       !.class_nodes = @ \cup nodes]
        ELSE [g EXCEPT !.entities = @ @@ (key :> entity),
                       !.class_nodes = @ \cup nodes]

\* The existence test of add_relationship for one endpoint
\* (NodeExistsUnchecked: no test, every endpoint is taken).
NodeExistsUnchecked(sys, g, node) == TRUE

NodeExists(sys, g, node) ==
    \/ Upper(node) \in DOMAIN g.entities
    \/ \E n \in g.class_nodes : Upper(node) = n[1] \o ":" \o n[2]
    \/ get_class_definition(sys, node) # NoDefinition

\* set.add: an element equal (by __eq__) to a member is not added.
SetAdd(rels, rel) ==
    IF \E e \in rels : RelEq(e, rel) THEN rels ELSE rels \cup {rel}

\* The scan of add_relationship for an existing identical relationship
\* (ScanMatchNoRefer: the scan with the refer comparison left out).
ScanMatchNoRefer(existing_rel, relationship) ==
    /\ Upper(existing_rel.source) = Upper(relationship.source)
    /\ Upper(existing_rel.target) = Upper(relationship.target)
    /\ existing_rel.description = relationship.description

ScanMatch(existing_rel, relationship) ==
    /\ Upper(existing_rel.source) = Upper(relationship.source)
    /\ Upper(existing_rel.target) = Upper(relationship.target)
    /\ existing_rel.description = relationship.description
    /\ ReferSet(existing_rel.refer) = ReferSet(relationship.refer)

\* How add_relationship updates the existing relationship it found: the code
\* calls existing_rel.increment_count(relationship.count), with no semantic
\* time.  (AccumulateNoCount: the existing relationship returned as it is.)
AccumulateNoCount(existing_rel, relationship) == existing_rel

Accumulate(existing_rel, relationship) ==
    increment_count(existing_rel, relationship.count, None)

\* Graph.add_relationship.  The result is [ok, graph]: ok is FALSE when the
\* call raises ValueError, and the graph is then the one passed in.
add_relationship(sys, g, relationship) ==
    IF ~NodeExists(sys, g, relationship.source)
       \/ ~NodeExists(sys, g, relationship.target)
    THEN [ok |-> FALSE, graph |-> g]
    ELSE LET found == {e \in g.relationships : ScanMatch(e, relationship)} IN
         IF found # {}
         THEN LET e == CHOOSE x \in found : TRUE IN
              [ok |-> TRUE,
               graph |-> [g EXCEPT !.relationships =
                              (@ \ {e}) \cup {Accumulate(e, relationship)}]]
         ELSE [ok |-> TRUE,
               graph |-> [g EXCEPT
                   !.relationships = SetAdd(@, relationship),
                   !.adj = @ \cup
                       {<<Upper(relationship.source), Upper(relationship.target)>>,
                        <<Upper(relationship.target), Upper(relationship.source)>>}]]

(***************************************************************************)
(* Graph.save and Graph.load: the file holds the System and the lists of   *)
(* entity, class-node and relationship dictionaries (lists whose order     *)
(* plays no part in load are sets here).                                   *)
(***************************************************************************)
\* Relationship.to_dict
rel_to_dict(r) ==
    [source |-> r.source, target |-> r.target, description |-> r.description,
     count |-> r.count, refer |-> r.refer, semantic_times |-> r.semantic_times]

\* Relationship.from_dict: the constructor runs again on the stored fields.
rel_from_dict(data) ==
    Relationship(data.source, data.target, data.description, data.count,
                 data.refer, data.semantic_times)

\* Graph.save(file_path): what pickle.dump writes.
graph_save(sys, g) ==
    [system |-> sys,
     entities |-> {g.entities[k] : k \in DOMAIN g.entities},
     class_nodes |-> g.class_nodes,
     relationships |-> {rel_to_dict(r) : r \in g.relationships}]

\* Graph.load, the loop over data["relationships"]: _relationships.add
RECURSIVE load_relationships(_, _)
load_relationships(rels, dicts) ==
    IF dicts = {} THEN rels
    ELSE LET d == CHOOSE x \in dicts : TRUE IN
         load_relationships(SetAdd(rels, rel_from_dict(d)), dicts \ {d})

\* Graph.load(file_path): the entities are stored under their uppercased
\* name and a class node is created for every class of every entity; then
\* the class nodes and the relationships of the file are added.
graph_load(file) ==
    LET names == {Upper(e.name) : e \in file.entities}
        rels == load_relationships({}, file.relationships)
    IN [system |-> file.system,
        graph |->
          [entities |-> [k \in names |->
                           CHOOSE e \in file.entities : Upper(e.name) = k],
           class_nodes |->
               UNION {{<<Upper(e.name), Upper(c)>> : c \in e.classes} :
                         e \in file.entities}
               \cup file.class_nodes,
           relationships |-> rels,
           adj |-> UNION {{<<Upper(r.source), Upper(r.target)>>,
                           <<Upper(r.target), Upper(r.source)>>} : r \in rels}]]

\* Graph.save through save_database: the file after a write of the System
\* and the Graph that succeeded.
Written(sys, g) ==
    <<[ok |-> TRUE, file |-> graph_save(sys, g),
       of |-> [system |-> sys, graph |-> g]]>>

\* open(file_path, "wb") truncates the file before pickle.dump writes it: a
\* write that raises leaves the old file, or a file that cannot be loaded.
Unreadable == <<[ok |-> FALSE]>>

(***************************************************************************)
(* Combiner (src/combiners/combiner.py): feeds the entities to             *)
(* Graph.add_entity and the relationships to Graph.add_relationship; a     *)
(* relationship whose endpoint is missing is skipped.                      *)
(***************************************************************************)
RECURSIVE combine_entities(_, _, _)
combine_entities(sys, g, entities) ==
    IF entities = << >> THEN g
    ELSE combine_entities(sys, add_entity(sys, g, Head(entities)), Tail(entities))

RECURSIVE combine_relationships(_, _, _)
combine_relationships(sys, g, relationships) ==
    IF relationships = << >> THEN g
    ELSE combine_relationships(
             sys, add_relationship(sys, g, Head(relationships)).graph,
             Tail(relationships))

combine(sys, g, entities, relationships) ==
    combine_relationships(sys, combine_entities(sys, g, entities), relationships)

(***************************************************************************)
(* GraphDelta (src/models/delta.py).                                       *)
(*   classes       : Seq of [name, properties]                             *)
(*   entities      : Seq of [name, classes, properties]                    *)
(*   relationships : Seq of [source, target, description, count, refer,    *)
(*                           semantic_times, operation, increment_amount]  *)
(***************************************************************************)
GraphDelta(classes, entities, relationships) ==
    [classes |-> classes, entities |-> entities, relationships |-> relationships]

RelationshipDelta(rel, operation, increment_amount) ==
    [source |-> rel.source, target |-> rel.target,
     description |-> rel.description, count |-> rel.count, refer |-> rel.refer,
     semantic_times |-> rel.semantic_times, operation |-> operation,
     increment_amount |-> increment_amount]

is_empty(delta) ==
    delta.classes = << >> /\ delta.entities = << >> /\ delta.relationships = << >>

(***************************************************************************)
(* SimpleGraph._apply_merge_result (simplegraph.py 1319-1481).             *)
(***************************************************************************)
\* lines 1332-1353: the class deltas go to System.add_class_definition
RECURSIVE ApplyClassDeltas(_, _)
ApplyClassDeltas(sys, class_deltas) ==
    IF class_deltas = << >> THEN sys
    ELSE ApplyClassDeltas(
             add_class_definition(sys, Head(class_deltas).name,
                                  Head(class_deltas).properties),
             Tail(class_deltas))

\* lines 1357-1378: Entity.add_class(class_name, system=self.system) raises
\* ValueError for a class the system does not define.
EntitiesBuildable(sys, entity_deltas) ==
    \A i \in DOMAIN entity_deltas :
        \A c \in entity_deltas[i].classes : Upper(c) \in DOMAIN sys

\* lines 1357-1378: the entity of one delta; set_property_value is called
\* with the canonical System, and a value it refuses is left out with a
\* warning.
BuildEntity(sys, entity_delta) ==
    LET entity == Entity(entity_delta.name, entity_delta.classes) IN
    [entity EXCEPT !.properties =
        UNION {set_property_value(sys, entity, p[1], p[2], p[3]).properties :
                  p \in entity_delta.properties}]

BuildEntities(sys, entity_deltas) ==
    [i \in DOMAIN entity_deltas |-> BuildEntity(sys, entity_deltas[i])]

\* lines 1398-1410: the match of an increment_count record
\* (IncrementMatchCaseSensitive: the match without the .upper() calls).
IncrementMatchCaseSensitive(existing_rel, rel_delta) ==
    /\ existing_rel.source = rel_delta.source
    /\ existing_rel.target = rel_delta.target
    /\ existing_rel.description = rel_delta.description
    /\ ReferSet(existing_rel.refer) = ReferSet(rel_delta.refer)

IncrementMatch(existing_rel, rel_delta) ==
    /\ Upper(existing_rel.source) = Upper(rel_delta.source)
    /\ Upper(existing_rel.target) = Upper(rel_delta.target)
    /\ existing_rel.description = rel_delta.description
    /\ ReferSet(existing_rel.refer) = ReferSet(rel_delta.refer)

\* lines 1412-1417: the update of the relationship found
IncrementFound(existing_rel, rel_delta) ==
    [existing_rel EXCEPT
        !.count = @ + rel_delta.increment_amount,
        !.semantic_times = @ \o rel_delta.semantic_times]

\* lines 1433-1450: no relationship matched; the record becomes a new
\* relationship whose count is the increment amount
\* (IncrementNotFoundKeepsCount: built with the record's own count).
IncrementNotFoundKeepsCount(rel_delta) ==
    Relationship(rel_delta.source, rel_delta.target, rel_delta.description,
                 rel_delta.count, rel_delta.refer, rel_delta.semantic_times)

IncrementNotFound(rel_delta) ==
    Relationship(rel_delta.source, rel_delta.target, rel_delta.description,
                 rel_delta.increment_amount, rel_delta.refer,
                 rel_delta.semantic_times)

\* lines 1383-1461: the loop over the relationship deltas.  acc is
\* [rels, pending, incremented, not_found]: the graph's relationship set, the
\* list handed to the Combiner, and increment_count_stats.
RECURSIVE ApplyRelDeltas(_, _)
ApplyRelDeltas(acc, rel_deltas) ==
    IF rel_deltas = << >> THEN acc
    ELSE
      LET d == Head(rel_deltas)
          found == {e \in acc.rels : IncrementMatch(e, d)}
          next ==
            IF d.operation = "increment_count"
            THEN IF d.increment_amount <= 0
                 THEN acc
                 ELSE IF found # {}
                      THEN LET e == CHOOSE x \in found : TRUE IN
                           [acc EXCEPT
                               !.rels = (@ \ {e}) \cup {IncrementFound(e, d)},
                               !.incremented = @ + 1]
                      ELSE [acc EXCEPT
                               !.pending = Append(@, IncrementNotFound(d)),
                               !.not_found = @ + 1]
            ELSE [acc EXCEPT
                     !.pending = Append(@,
                         Relationship(d.source, d.target, d.description, d.count,
                                      d.refer, d.semantic_times))]
      IN ApplyRelDeltas(next, Tail(rel_deltas))

\* The whole method.  ok is FALSE when it raises; the class deltas have then
\* already been applied to the system, and the graph is untouched.
apply_merge_result(sys, g, optimized_delta) ==
    LET sys1 == ApplyClassDeltas(sys, optimized_delta.classes) IN
    IF ~EntitiesBuildable(sys1, optimized_delta.entities)
    THEN [ok |-> FALSE, system |-> sys1, graph |-> g,
          incremented |-> 0, not_found |-> 0]
    ELSE
      LET acc == ApplyRelDeltas(
                     [rels |-> g.relationships, pending |-> << >>,
                      incremented |-> 0, not_found |-> 0],
                     optimized_delta.relationships)
          g1 == [g EXCEPT !.relationships = acc.rels]
      IN [ok |-> TRUE, system |-> sys1,
          graph |-> combine(sys1, g1,
                            BuildEntities(sys1, optimized_delta.entities),
                            acc.pending),
          incremented |-> acc.incremented, not_found |-> acc.not_found]

(***************************************************************************)
(* Initial state shared by the two specifications.                         *)
(***************************************************************************)
SystemIds == 0 .. MaxTasks      \* 0 is SimpleGraph.system; t is task t's copy
TaskIds == 1 .. MaxTasks

\* System.from_config_file: the catalog the configuration defines.
InitialSystem == ("PERSON" :> {"age"})

\* Graph(system, include_predefined_entities=True): the predefined entities
\* of the system are injected with add_entity.
PredefinedEntities == <<Entity("a", {"person"}), Entity("b", {})>>

InitialGraph == combine_entities(InitialSystem, EmptyGraph, PredefinedEntities)

NoTask ==
    [status |-> "none", system_snapshot |-> 0, result_delta |-> << >>]

\* SimpleGraph.__init__ seen at the grain of start() and stop(): _running is
\* False, _worker_tasks is empty, _merge_worker_task is None, both queues are
\* empty.  Workers are told apart by the start() call that created them
\* (1..MaxRestarts); tasks are counted, not named.
Gens == 1 .. MaxRestarts

NoWorkers == [get |-> 0, get_c |-> 0, run |-> 0, run_c |-> 0, merge |-> "none"]

NoCoordinator ==
    [running |-> FALSE, refs |-> {}, gathers |-> {},
     gen |-> [g \in Gens |-> NoWorkers], starts |-> 0, submitted |-> 0,
     tq |-> 0, mq |-> 0]

\* What a SearchEngine reads: the entities and relationships of its graph,
\* the class catalog of that graph's System (graph_system) and the class
\* catalog of the System the engine took from the graph when it was built
\* (system).  Here a graph without texts, before any search.
NoStore ==
    [entities |-> << >>, relationships |-> << >>, graph_system |-> << >>,
     system |-> << >>]

NoSearch(store) ==
    [store |-> store, op |-> "init", keyword |-> << >>, fuzzy |-> TRUE,
     limit |-> 0, results |-> << >>]

PipelineInit ==
    /\ co = NoCoordinator
    /\ tasks = [t \in TaskIds |-> NoTask]
    /\ task_queue = << >>
    /\ merge_queue = << >>
    /\ running = FALSE
    /\ procs = [idle |-> 0, busy |-> {}, merge_idle |-> 0, merging |-> {}]
    /\ events = [t \in TaskIds |-> << >>]
    /\ hist = [enqueued |-> << >>, merging |-> << >>,
               submitted |-> [t \in TaskIds |-> EmptySystem], starts |-> 0,
               cancel_ok |-> {}, refused |-> {},
               applied |-> [t \in TaskIds |-> << >>],
               gained |-> [t \in TaskIds |-> {}],
               replies |-> [t \in TaskIds |-> << >>]]

StoreInit ==
    /\ systems = [i \in SystemIds |-> IF i = 0 THEN InitialSystem ELSE EmptySystem]
    /\ graph = InitialGraph
    /\ ret = [op |-> "init", n |-> 0]
    /\ relSum = << >>

\* GraphService.__init__: auto-save is enabled, nothing is scheduled or
\* written.  attached tells whether GraphService._on_progress is the progress
\* callback of the coordinator; disk is the database file: no file, or one
\* file [ok, system, entities, class_nodes, relationships, of], where ok is
\* FALSE for a file a failed write left unreadable and of is the history of
\* what was saved (the System and the Graph at the time of the write).
NoFile == << >>

ServiceInit(attached) ==
    svc = [attached |-> attached, auto_save_enabled |-> TRUE,
           saves |-> [t \in TaskIds |-> "none"], disk |-> NoFile,
           loaded |-> << >>]

\* The coordinator with a callback that only records the labels.
Init ==
    PipelineInit /\ StoreInit /\ ServiceInit(FALSE) /\ search = NoSearch(NoStore)

(***************************************************************************)
(* History of the store: the identity key of a relationship and, per key,  *)
(* the sum of the counts of the relationships that were added under it.    *)
(***************************************************************************)
Key(r) == <<Upper(r.source), Upper(r.target), r.description, ReferSet(r.refer)>>

SumAdd(rs, key, n) ==
    IF key \in DOMAIN rs THEN [rs EXCEPT ![key] = @ + n] ELSE rs @@ (key :> n)

\* An endpoint that names an entity, a class-instance node or a class.
Endpoints(sys, g, r) == NodeExists(sys, g, r.source) /\ NodeExists(sys, g, r.target)

RECURSIVE SumAddAll(_, _, _, _)
SumAddAll(rs, sys, g, rels) ==
    IF rels = << >> THEN rs
    ELSE LET r == Head(rels) IN
         SumAddAll(IF Endpoints(sys, g, r) THEN SumAdd(rs, Key(r), r.count) ELSE rs,
                   sys, g, Tail(rels))

\* What a delta brings in: count for an added record, increment_amount for an
\* increment_count record with a positive amount.
Incoming(rel_deltas) ==
    LET keep == SelectSeq(rel_deltas,
                    LAMBDA d : d.operation # "increment_count"
                               \/ d.increment_amount > 0)
    IN [i \in DOMAIN keep |->
          Relationship(keep[i].source, keep[i].target, keep[i].description,
                       IF keep[i].operation = "increment_count"
                       THEN keep[i].increment_amount ELSE keep[i].count,
                       keep[i].refer, keep[i].semantic_times)]

(***************************************************************************)
(* SpecGraph: the graph store driven directly.                             *)
(***************************************************************************)
Sources == {"a", "A"}
Refers == {<< >>, <<"p", "q">>, <<"Q", "p">>}
CountsAndTimes == {<<1, << >> >>, <<2, <<"t1">> >>}

\* Relationships a -> b that differ in letter case, refer, count and semantic
\* times; one with another description; one whose target and one whose
\* source may not exist.
RelInputs ==
    {Relationship(s, "b", "d", ct[1], rf, ct[2]) :
        s \in Sources, rf \in Refers, ct \in CountsAndTimes}
    \cup {Relationship("a", "b", "D", 1, << >>, << >>),
          Relationship("a", "c", "d", 1, << >>, << >>),
          Relationship("c", "b", "d", 1, << >>, << >>)}

EntityInputs ==
    {Entity("c", cs) : cs \in {{}, {"person"}}} \cup {Entity("C", {"app"})}

DeltaRelInputs ==
    {RelationshipDelta(Relationship(s, t, "d", 1, rf, <<"t2">>), oa[1], oa[2]) :
        s \in Sources, t \in {"b"}, rf \in {<< >>, <<"q", "P">>},
        oa \in {<<"add", 0>>, <<"increment_count", 2>>, <<"increment_count", 0>>}}

DeltaPairInputs ==
    {RelationshipDelta(Relationship("A", "b", "d", 1, << >>, << >>), oa[1], oa[2]) :
        oa \in {<<"add", 0>>, <<"increment_count", 2>>}}

DeltaInputs ==
    {GraphDelta(<< >>, << >>, <<d>>) : d \in DeltaRelInputs}
    \cup {GraphDelta(<< >>, << >>, <<d1, d2>>) : d1, d2 \in DeltaPairInputs}
    \cup {GraphDelta(cs, <<Entity(n, ec)>>,
                     <<RelationshipDelta(
                         Relationship("a", "c", "d", 1, << >>, << >>), "add", 0)>>) :
            cs \in {<< >>, <<[name |-> "app", properties |-> {"ver"}]>>},
            n \in {"c", "C"}, ec \in {{}, {"app"}}}
    \cup {GraphDelta(<<[name |-> "app", properties |-> {"ver"}]>>,
                     <<Entity("c", {"person"}), Entity("C", {"app"})>>, << >>)}
    \cup {GraphDelta(<< >>, << >>,
                     <<RelationshipDelta(
                         Relationship("a", "c", "d", 1, << >>, << >>),
                         "increment_count", 2)>>),
          GraphDelta(<<[name |-> "Person", properties |-> {"city"}]>>, << >>, << >>)}

GAddEntity ==
    /\ ret.n < MaxStoreOps
    /\ \E e \in EntityInputs :
        /\ graph' = add_entity(systems[0], graph, e)
        /\ ret' = [op |-> "add_entity", n |-> ret.n + 1, arg |-> e, ok |-> TRUE]
    /\ UNCHANGED <<systems, relSum, pipelineVars, svc>>

GAddRelationship ==
    /\ ret.n < MaxStoreOps
    /\ \E rel \in RelInputs :
        LET r == add_relationship(systems[0], graph, rel) IN
        /\ graph' = r.graph
        /\ ret' = [op |-> "add_relationship", n |-> ret.n + 1, arg |-> rel,
                   ok |-> r.ok]
        /\ relSum' = SumAddAll(relSum, systems[0], graph, <<rel>>)
    /\ UNCHANGED <<systems, pipelineVars, svc>>

GCombine ==
    /\ ret.n < MaxStoreOps
    /\ \E r1, r2 \in {r \in RelInputs : r.source = "a" /\ r.target = "b"
                                         /\ r.description = "d"
                                         /\ r.refer = << >>} :
        /\ graph' = combine_relationships(systems[0], graph, <<r1, r2>>)
        /\ ret' = [op |-> "combine", n |-> ret.n + 1, arg |-> <<r1, r2>>,
                   ok |-> TRUE]
        /\ relSum' = SumAddAll(relSum, systems[0], graph, <<r1, r2>>)
    /\ UNCHANGED <<systems, pipelineVars, svc>>

GApply ==
    /\ ret.n < MaxStoreOps
    /\ \E delta \in DeltaInputs :
        LET r == apply_merge_result(systems[0], graph, delta) IN
        /\ graph' = r.graph
        /\ systems' = [systems EXCEPT ![0] = r.system]
        /\ ret' = [op |-> "apply", n |-> ret.n + 1, arg |-> delta, ok |-> r.ok,
                   incremented |-> r.incremented, not_found |-> r.not_found]
        /\ relSum' =
             IF r.ok
             THEN SumAddAll(relSum, r.system,
                            combine_entities(r.system, graph,
                                             BuildEntities(r.system, delta.entities)),
                            Incoming(delta.relationships))
             ELSE relSum
    /\ UNCHANGED <<pipelineVars, svc>>

\* dict.get(key, default) on a parsed reply: an absent key is << >>.
Get(value, default) == IF value = << >> THEN default ELSE value[1]

\* SmartMerger._build_optimized_delta, lines 394-428: one relationship record
\* of the reply (build_relationship_delta_as_sent: without the downgrade of
\* an increment_count whose amount is not positive).
build_relationship_delta_as_sent(rel_data) ==
    [source |-> rel_data.source, target |-> rel_data.target,
     description |-> rel_data.description, count |-> Get(rel_data.count, 1),
     refer |-> Get(rel_data.refer, << >>),
     semantic_times |-> Get(rel_data.semantic_times, << >>),
     operation |-> Get(rel_data.operation, "add"),
     increment_amount |-> Get(rel_data.increment_amount, 0)]

build_relationship_delta(rel_data) ==
    LET operation == Get(rel_data.operation, "add")
        increment_amount == Get(rel_data.increment_amount, 0)
        invalid == operation = "increment_count" /\ increment_amount <= 0
    IN  [source |-> rel_data.source, target |-> rel_data.target,
         description |-> rel_data.description, count |-> Get(rel_data.count, 1),
         refer |-> Get(rel_data.refer, << >>),
         semantic_times |-> Get(rel_data.semantic_times, << >>),
         operation |-> IF invalid THEN "add" ELSE operation,
         increment_amount |-> IF invalid THEN 0 ELSE increment_amount]

\* lines 369-392: an entity record; a merge record takes its merge_target as
\* the name.
build_entity_delta(ent_data) ==
    Entity(IF Get(ent_data.operation, "add") = "merge"
              /\ ent_data.merge_target # << >>
           THEN ent_data.merge_target[1]
           ELSE ent_data.name,
           ent_data.classes)

\* SmartMerger._build_optimized_delta
build_optimized_delta(optimized_data) ==
    GraphDelta(
        optimized_data.optimized_classes,
        [i \in DOMAIN optimized_data.optimized_entities |->
            build_entity_delta(optimized_data.optimized_entities[i])],
        [i \in DOMAIN optimized_data.optimized_relationships |->
            build_relationship_delta(optimized_data.optimized_relationships[i])])

\* Parsed replies of the completion service: one relationship record a -> b
\* or a -> c with or without operation, increment_amount and count (3, or 0,
\* which is no valid count), and
\* possibly an entity record merged into c.
RelData(target, operation, increment_amount, count) ==
    [source |-> "A", target |-> target, description |-> "d", refer |-> << >>,
     semantic_times |-> << >>, operation |-> operation,
     increment_amount |-> increment_amount, count |-> count]

ReplyInputs ==
    {[optimized_classes |-> << >>, optimized_entities |-> es,
      optimized_relationships |-> <<RelData(x[1], x[2], x[3], x[4])>>] :
        es \in {<< >>,
                <<[name |-> "x", classes |-> {}, operation |-> <<"merge">>,
                   merge_target |-> <<"c">>]>>},
        x \in {<<"b", <<"increment_count">>, << >>, <<3>> >>,
               <<"b", <<"increment_count">>, <<0>>, << >> >>,
               <<"b", <<"increment_count">>, <<-1>>, <<3>> >>,
               <<"b", <<"increment_count">>, <<2>>, <<3>> >>,
               <<"c", <<"increment_count">>, <<0>>, <<3>> >>,
               <<"b", << >>, << >>, <<3>> >>,
               <<"b", << >>, << >>, <<0>> >>}}

\* _auto_merge with the smart merge: the reply is parsed, the optimized delta
\* built from it is applied.
GMergeReply ==
    /\ ret.n < MaxStoreOps
    /\ \E optimized_data \in ReplyInputs :
        LET delta == build_optimized_delta(optimized_data)
            r == apply_merge_result(systems[0], graph, delta)
        IN
        /\ graph' = r.graph
        /\ systems' = [systems EXCEPT ![0] = r.system]
        /\ ret' = [op |-> "apply", n |-> ret.n + 1, arg |-> delta, ok |-> r.ok,
                   incremented |-> r.incremented, not_found |-> r.not_found,
                   reply |-> optimized_data]
        /\ relSum' =
             IF r.ok
             THEN SumAddAll(relSum, r.system,
                            combine_entities(r.system, graph,
                                             BuildEntities(r.system, delta.entities)),
                            Incoming(delta.relationships))
             ELSE relSum
    /\ UNCHANGED <<pipelineVars, svc>>

\* GraphService.update_class_definition without the merge of
\* System.add_class_definition: the class is set to the definition built
\* from the arguments.
update_class_definition_replacing(sys, class_name, properties) ==
    IF get_class_definition(sys, class_name) = NoDefinition
    THEN [ok |-> FALSE, system |-> sys]
    ELSE [ok |-> TRUE,
          system |-> [sys EXCEPT ![Upper(class_name)] = properties]]

\* GraphService.update_class_definition(class_name, description, properties):
\* ValueError for an unknown class; otherwise a ClassDefinition with the
\* properties given (none when properties is None) goes to
\* System.add_class_definition.
update_class_definition(sys, class_name, properties) ==
    IF get_class_definition(sys, class_name) = NoDefinition
    THEN [ok |-> FALSE, system |-> sys]
    ELSE [ok |-> TRUE,
          system |-> add_class_definition(sys, class_name, properties)]

\* Class names and property lists the catalog-editing operations are called
\* with: a known class in two letter cases, an unknown one; no property or one.
ClassNameInputs == {"person", "Person", "tool"}
PropertyInputs == {{}, {"os"}}

\* GraphService.add_class_to_system
GAddClassToSystem ==
    /\ ret.n < MaxStoreOps
    /\ \E class_name \in ClassNameInputs, properties \in PropertyInputs :
        /\ systems' = [systems EXCEPT
                          ![0] = add_class_definition(@, class_name, properties)]
        /\ ret' = [op |-> "add_class_to_system", n |-> ret.n + 1,
                   arg |-> <<class_name, properties>>, ok |-> TRUE]
    /\ UNCHANGED <<graph, relSum, pipelineVars, svc>>

\* GraphService.update_class_definition
GUpdateClassDefinition ==
    /\ ret.n < MaxStoreOps
    /\ \E class_name \in ClassNameInputs, properties \in PropertyInputs :
        LET r == update_class_definition(systems[0], class_name, properties) IN
        /\ systems' = [systems EXCEPT ![0] = r.system]
        /\ ret' = [op |-> "update_class_definition", n |-> ret.n + 1,
                   arg |-> <<class_name, properties>>, ok |-> r.ok]
    /\ UNCHANGED <<graph, relSum, pipelineVars, svc>>

\* GraphService.add_property_to_class
GAddPropertyToClass ==
    /\ ret.n < MaxStoreOps
    /\ \E class_name \in ClassNameInputs, property_name \in {"os"} :
        /\ systems' = [systems EXCEPT
                          ![0] = add_property(@, class_name, property_name)]
        /\ ret' = [op |-> "add_property_to_class", n |-> ret.n + 1,
                   arg |-> <<class_name, {property_name}>>, ok |-> TRUE]
    /\ UNCHANGED <<graph, relSum, pipelineVars, svc>>

\* Entity.add_class(class_name, system): the class must be defined.
entity_add_class(sys, g, entity_name, class_name) ==
    IF Upper(class_name) \in DOMAIN sys
    THEN [g EXCEPT !.entities[Upper(entity_name)].classes = @ \cup {class_name}]
    ELSE g

\* GraphService.update_entity(entity_name, add_classes=[class_name]) and
\* GraphService.add_class_to_entity(entity_name, class_name): ValueError for
\* an unknown entity; Entity.add_class is called on the entity unless it has
\* the class, and raises for a class the catalog does not define.
GUpdateEntity ==
    /\ ret.n < MaxStoreOps
    /\ \E entity_name \in {"b", "c"}, class_name \in {"person", "app"} :
        LET found == Upper(entity_name) \in DOMAIN graph.entities
            has_class == found /\ class_name \in
                             graph.entities[Upper(entity_name)].classes
            defined == Upper(class_name) \in DOMAIN systems[0]
        IN /\ graph' = IF found /\ ~has_class
                       THEN entity_add_class(systems[0], graph, entity_name,
                                             class_name)
                       ELSE graph
           /\ ret' = [op |-> "update_entity", n |-> ret.n + 1,
                      arg |-> Entity(entity_name, {class_name}),
                      ok |-> found /\ (has_class \/ defined)]
    /\ UNCHANGED <<systems, relSum, pipelineVars, svc>>

\* SimpleGraph.save(file_path) with a write that succeeds
GSave ==
    /\ ret.n < MaxStoreOps
    /\ svc' = [svc EXCEPT !.disk = Written(systems[0], graph)]
    /\ ret' = [op |-> "save", n |-> ret.n + 1, arg |-> << >>, ok |-> TRUE]
    /\ UNCHANGED <<systems, graph, relSum, pipelineVars>>

\* Graph.load(file_path) on the file written: svc.loaded is the Graph (and
\* its System) the call returns.
GLoad ==
    /\ ret.n < MaxStoreOps
    /\ svc.disk # NoFile
    /\ svc.disk[1].ok
    /\ svc' = [svc EXCEPT !.loaded = <<graph_load(svc.disk[1].file)>>]
    /\ ret' = [op |-> "load", n |-> ret.n + 1, arg |-> << >>, ok |-> TRUE]
    /\ UNCHANGED <<systems, graph, relSum, pipelineVars>>

NextGraph ==
    \/ GUpdateEntity
    \/ GSave
    \/ GLoad
    \/ GAddEntity
    \/ GAddRelationship
    \/ GCombine
    \/ GApply
    \/ GMergeReply
    \/ GAddClassToSystem
    \/ GUpdateClassDefinition
    \/ GAddPropertyToClass

SpecGraph == Init /\ [][NextGraph]_vars

(***************************************************************************)
(* Properties of the graph store, checked under SpecGraph.                 *)
(***************************************************************************)
\* The relationship of graph g that has the identity key of r, if any.
SameKey(g, r) == {e \in g.relationships : Key(e) = Key(r)}

\* C7: adding a relationship whose uppercased source, uppercased target,
\* description and uppercased refer set equal those of a relationship already
\* in the graph leaves the number of relationships unchanged and sets the
\* existing count to the old count plus the incoming count; after any
\* sequence of adds (add_relationship, Combiner, applied deltas) the count of
\* every relationship is the sum of the incoming counts of its key.
C7_CountAccumulates ==
    /\ [](\A r \in graph.relationships :
             Key(r) \in DOMAIN relSum /\ r.count = relSum[Key(r)])
    /\ [][(ret'.op = "add_relationship" /\ ret'.n = ret.n + 1
           /\ SameKey(graph, ret'.arg) # {})
          => /\ Cardinality(graph'.relationships) = Cardinality(graph.relationships)
             /\ \A e \in SameKey(graph, ret'.arg) :
                   \E e2 \in SameKey(graph', e) :
                       e2.count = e.count + ret'.arg.count]_vars

\* C7 witness: add_relationship has just accumulated onto a relationship
\* stored under another spelling of the source, reaching 1 + 2 + 2 = 5.
C7_Witness ==
    /\ ret.op = "add_relationship"
    /\ \E r \in graph.relationships :
          /\ Key(r) = Key(ret.arg)
          /\ r.source # ret.arg.source
          /\ r.count = 5

\* C8: counts accumulate if and only if the identity key matches:
\* relationships that differ in source, target, description or refer set
\* (order and letter case ignored) are stored separately, each with the sum
\* of the counts added under its own key, and the graph never holds two
\* relationships with the same identity key.
C8_IdentityKeySeparates ==
    /\ \A r1, r2 \in graph.relationships : Key(r1) = Key(r2) => r1 = r2
    /\ {Key(r) : r \in graph.relationships} = DOMAIN relSum
    /\ \A k \in DOMAIN relSum :
          \E r \in graph.relationships : Key(r) = k /\ r.count = relSum[k]

\* C8 witness: two relationships that differ only in their refer set are
\* both stored, one of them having accumulated a refer list given in another
\* order and letter case.
C8_Witness ==
    \E r1, r2 \in graph.relationships :
        /\ Upper(r1.source) = Upper(r2.source)
        /\ r1.target = r2.target
        /\ r1.description = r2.description
        /\ r1.refer = << >>
        /\ r2.refer = <<"p", "q">>
        /\ r2.count = 3
        /\ ret.op = "add_relationship" /\ ret.arg.refer = <<"Q", "p">>

\* C9 (as claimed): when an incoming relationship is identical to an existing
\* one, the existing relationship's semantic_times becomes the old list
\* followed by the incoming relationship's semantic_times.
C9_SemanticTimesAppended ==
    [][(ret'.op = "add_relationship" /\ ret'.n = ret.n + 1)
       => \A e \in SameKey(graph, ret'.arg) :
             \E e2 \in SameKey(graph', e) :
                 e2.semantic_times = e.semantic_times \o ret'.arg.semantic_times]_vars

\* The single relationship record of an applied delta.
TheRecord(delta) == delta.relationships[1]

\* C10: applying a relationship delta with operation increment_count and
\* increment_amount k > 0 when a relationship with the same identity key
\* exists with count c leaves the number of relationships unchanged, sets
\* that relationship's count to c + k and counts it as 'incremented'.
C10_IncrementCountWithMatch ==
    [][(/\ ret'.op = "apply" /\ ret'.n = ret.n + 1
        /\ Len(ret'.arg.relationships) = 1
        /\ TheRecord(ret'.arg).operation = "increment_count"
        /\ TheRecord(ret'.arg).increment_amount > 0
        /\ SameKey(graph, TheRecord(ret'.arg)) # {})
       => /\ Cardinality(graph'.relationships) = Cardinality(graph.relationships)
          /\ \A e \in SameKey(graph, TheRecord(ret'.arg)) :
                \E e2 \in SameKey(graph', e) :
                    e2.count = e.count + TheRecord(ret'.arg).increment_amount
          /\ ret'.incremented = 1
          /\ ret'.not_found = 0]_vars

\* C10 witness: a relationship at count 3 has just been raised to 5 by an
\* increment_count record of amount 2 spelled in another letter case.
C10_Witness ==
    /\ ret.op = "apply"
    /\ Len(ret.arg.relationships) = 1
    /\ TheRecord(ret.arg).operation = "increment_count"
    /\ TheRecord(ret.arg).increment_amount = 2
    /\ ret.incremented = 1
    /\ \E r \in SameKey(graph, TheRecord(ret.arg)) :
          r.count = 5 /\ r.source # TheRecord(ret.arg).source

\* An apply of a delta whose single relationship record is an increment_count
\* record with a positive amount, met by no relationship of its key.
IncrementUnmatched ==
    /\ ret'.op = "apply" /\ ret'.n = ret.n + 1
    /\ Len(ret'.arg.relationships) = 1
    /\ TheRecord(ret'.arg).operation = "increment_count"
    /\ TheRecord(ret'.arg).increment_amount > 0
    /\ SameKey(graph, TheRecord(ret'.arg)) = {}

\* One relationship was created, with the amount as count; not_found is 1.
CreatedWithAmount ==
    /\ Cardinality(graph'.relationships) = Cardinality(graph.relationships) + 1
    /\ \E e \in SameKey(graph', TheRecord(ret'.arg)) :
          e.count = TheRecord(ret'.arg).increment_amount
    /\ ret'.not_found = 1
    /\ ret'.incremented = 0

\* C11 (amended): applying a relationship delta with operation
\* increment_count and increment_amount k > 0 when no relationship with that
\* identity key exists and both endpoints exist as a node (entity,
\* class-instance node or class of the System) creates exactly one new
\* relationship whose count is k and counts it as 'not_found'; with a missing
\* endpoint no relationship is created, and not_found is incremented all the
\* same.
C11_IncrementCountWithoutMatch ==
    [][IncrementUnmatched
       => /\ ret'.not_found = 1
          /\ IF Endpoints(systems'[0], graph', TheRecord(ret'.arg))
             THEN CreatedWithAmount
             ELSE graph'.relationships = graph.relationships]_vars

\* C11 (as claimed): such a record, met by no relationship of its key,
\* creates exactly one new relationship whose count is k and increments
\* not_found by one.
C11_AsClaimed == [][IncrementUnmatched => CreatedWithAmount]_vars

\* C11 witness: an increment_count record of amount 2 has just created the
\* first relationship of the graph, at count 2, counted as not_found.
C11_Witness ==
    /\ ret.op = "apply"
    /\ Len(ret.arg.relationships) = 1
    /\ TheRecord(ret.arg).operation = "increment_count"
    /\ TheRecord(ret.arg).increment_amount = 2
    /\ TheRecord(ret.arg).count = 1
    /\ ret.not_found = 1
    /\ Cardinality(graph.relationships) = 1
    /\ \E r \in SameKey(graph, TheRecord(ret.arg)) : r.count = 2

\* C17: the class catalog is append-only: across applied deltas and the
\* catalog-editing operations every class present before a step is present
\* after it, with every property it had.
C17_CatalogAppendOnly ==
    [][\A k \in DOMAIN systems[0] :
          /\ k \in DOMAIN systems'[0]
          /\ systems[0][k] \subseteq systems'[0][k]]_vars

\* update_class_definition was called without properties for class person
\* after a delta had enhanced it, and person has both properties.
C17_Witness ==
    /\ ret.op = "update_class_definition"
    /\ ret.ok
    /\ ret.arg = <<"Person", {}>>
    /\ {"age", "city"} \subseteq systems[0]["PERSON"]

\* The entities a step of the store was called with.
Mentioned ==
    IF ret'.op = "apply" THEN ret'.arg.entities
    ELSE IF ret'.op \in {"add_entity", "update_entity"} THEN <<ret'.arg>>
    ELSE << >>

\* The classes the step brings to the entity of key k: those of every
\* mentioned entity of that name modulo case (a class the catalog does not
\* define is not a membership).
Brought(k) ==
    UNION {{c \in Mentioned[i].classes : Upper(c) \in DOMAIN systems'[0]} :
              i \in {j \in DOMAIN Mentioned : Upper(Mentioned[j].name) = k}}

MentionedKeys == {Upper(Mentioned[i].name) : i \in DOMAIN Mentioned}

\* C18: the graph holds one entity per name modulo letter case; after a
\* delta is applied (or an entity is added) each name mentioned has a single
\* entity whose classes are those it had before together with those every
\* mention brings, and the other entities are as before.
C18_OneEntityPerName ==
    /\ [](\A k \in DOMAIN graph.entities : Upper(graph.entities[k].name) = k)
    /\ [][(ret'.n # ret.n /\ ret'.ok) =>
             /\ DOMAIN graph'.entities = DOMAIN graph.entities \cup MentionedKeys
             /\ \A k \in DOMAIN graph'.entities :
                   graph'.entities[k].classes =
                       (IF k \in DOMAIN graph.entities
                        THEN graph.entities[k].classes ELSE {})
                       \cup Brought(k)]_vars

\* A delta that names c and C was applied to a graph that had c already, and
\* the single entity has the classes of all three mentions.
C18_Witness ==
    /\ ret.op = "apply"
    /\ ret.ok
    /\ Len(ret.arg.entities) = 2
    /\ graph.entities["C"].classes = {"person", "app"}
    /\ ret.n >= 2

\* What can be observed of a Graph and its System: the catalog, the
\* entities with their classes, the class-instance nodes, and the
\* relationships with identity key, count and semantic times.
Observed(sg) ==
    [classes |-> sg.system,
     entities |-> {<<k, sg.graph.entities[k].name, sg.graph.entities[k].classes>> :
                      k \in DOMAIN sg.graph.entities},
     class_nodes |-> sg.graph.class_nodes,
     relationships |-> {<<Key(r), r.count, r.semantic_times>> :
                           r \in sg.graph.relationships}]

\* C19: loading the file a save wrote yields a graph observationally equal
\* to the one saved.
C19_SaveLoadRoundTrip ==
    [][ret'.op = "load" /\ ret'.n # ret.n =>
          Observed(svc'.loaded[1]) = Observed(svc.disk[1].of)]_vars

(***************************************************************************)
(* Task (src/models/task.py): the status of one task.                      *)
(***************************************************************************)
\* Task.start(): a task cancelled while it waited keeps its cancellation.
task_start(task) ==
    IF task.status = "cancelled" THEN task ELSE [task EXCEPT !.status = "running"]

\* result_delta (Optional[GraphDelta]) is a sequence of no or one delta.
task_complete(task, delta) ==
    [task EXCEPT !.status = "completed", !.result_delta = <<delta>>]

task_fail(task) == [task EXCEPT !.status = "failed"]

task_cancel(task) == [task EXCEPT !.status = "cancelled"]

is_finished(task) == task.status \in {"completed", "failed", "cancelled"}

is_cancelled(task) == task.status = "cancelled"

(***************************************************************************)
(* SimpleGraph: the coordinator (simple_graphrag/simplegraph.py).          *)
(*                                                                         *)
(* procs holds the asyncio tasks start() created, by position:             *)
(*   idle        number of extract workers waiting on task_queue.get()     *)
(*   busy        extract workers suspended inside _run_task, as records    *)
(*               [task, pc, cancelling, class_deltas]; pc is the await     *)
(*               they are suspended at ("update": _step_update_system,     *)
(*               "extract": _step_extract); cancelling is TRUE once        *)
(*               stop() has called cancel() on the worker                  *)
(*   merge_idle  number of merge workers waiting on merge_queue.get()      *)
(*   merging     the tasks a merge worker is suspended on, inside          *)
(*               _auto_merge                                               *)
(* A worker that is cancelled while it waits on a queue only leaves its    *)
(* loop, so stop() removes it at once.                                     *)
(***************************************************************************)
\* _notify_progress: the callback receives (task_id, step, data).
notify_progress(ev, t, step) == [ev EXCEPT ![t] = Append(@, step)]

\* asyncio.Queue.get() (queue_get_last: the newest item instead;
\* queue_get_kept: the item stays in the queue).
queue_get_kept(q) == [item |-> Head(q), rest |-> q]

queue_get_last(q) == [item |-> q[Len(q)], rest |-> SubSeq(q, 1, Len(q) - 1)]

queue_get(q) == [item |-> Head(q), rest |-> Tail(q)]

\* asyncio.Queue().put(item): the queues are unbounded
\* (queue_put_bounded: a queue of one place that drops what does not fit).
queue_put_bounded(q, item) == IF q = << >> THEN <<item>> ELSE q

queue_put(q, item) == Append(q, item)

\* _create_system_snapshot: copy.deepcopy(self.system) is a new object; the
\* copy made for task t is object t of the heap.
\* (create_system_snapshot_alias: self.system itself.)
create_system_snapshot_alias(t) == 0

create_system_snapshot(t) == t

\* _run_task line 494: the System object the extract phase works on
\* (run_task_system_canonical: self.system).
run_task_system_canonical(task) == 0

run_task_system(task) == task.system_snapshot

\* _check_cancelled(task) raises CancelledError: TRUE when it raises
\* (check_cancelled_never: a check that never raises).
check_cancelled_never(task) == FALSE

check_cancelled(task) == is_cancelled(task)

\* start() without its test of _running.
StartUnguarded ==
    /\ hist.starts < MaxStarts
    /\ running' = TRUE
    /\ procs' = [procs EXCEPT !.idle = @ + max_concurrent_tasks,
                              !.merge_idle = @ + 1]
    /\ hist' = [hist EXCEPT !.starts = @ + 1]
    /\ UNCHANGED <<systems, graph, tasks, task_queue, merge_queue, events,
                   ret, relSum, svc, co, search>>

\* start().  Callers await stop() before they start again: no worker is
\* still handling a cancellation.
Start ==
    /\ \A w \in procs.busy : ~w.cancelling
    /\ IF running
       THEN UNCHANGED vars
       ELSE /\ hist.starts < MaxStarts
            /\ running' = TRUE
            /\ procs' = [procs EXCEPT !.idle = @ + max_concurrent_tasks,
                                      !.merge_idle = @ + 1]
            /\ hist' = [hist EXCEPT !.starts = @ + 1]
            /\ UNCHANGED <<systems, graph, tasks, task_queue, merge_queue,
                           events, ret, relSum, svc, co, search>>

\* stop(): every worker is cancelled; the workers inside _run_task handle
\* the cancellation in their own step (WorkerCancelled).
Stop ==
    IF ~running
    THEN UNCHANGED vars
    ELSE /\ running' = FALSE
         /\ procs' = [idle |-> 0,
                      busy |-> {[w EXCEPT !.cancelling = TRUE] : w \in procs.busy},
                      merge_idle |-> 0, merging |-> {}]
         /\ UNCHANGED <<systems, graph, tasks, task_queue, merge_queue,
                        events, hist, ret, relSum, svc, co, search>>

\* submit_task(input_text): task ids are handed out in order.
SubmitTask ==
    \E t \in TaskIds :
        /\ tasks[t].status = "none"
        /\ \A u \in 1 .. (t - 1) : tasks[u].status # "none"
        /\ LET sid == create_system_snapshot(t) IN
            /\ systems' = [systems EXCEPT ![sid] = systems[0]]
            /\ tasks' = [tasks EXCEPT ![t] =
                            [status |-> "pending", system_snapshot |-> sid,
                             result_delta |-> << >>]]
        /\ task_queue' = queue_put(task_queue, t)
        /\ hist' = [hist EXCEPT !.submitted[t] = systems[0]]
        /\ UNCHANGED <<graph, merge_queue, running, procs, events, ret, relSum, svc, co, search>>

\* Task t waits for the merge worker or is inside it.
InMergeStage(t) ==
    t \in procs.merging \/ \E i \in DOMAIN merge_queue : merge_queue[i] = t

\* cancel_task without its test of is_finished.
CancelTaskUnguarded ==
    \E t \in TaskIds :
        /\ tasks[t].status # "none"
        /\ tasks' = [tasks EXCEPT ![t] = task_cancel(@)]
        /\ hist' = [hist EXCEPT !.cancel_ok = @ \cup {t}]
        /\ UNCHANGED <<systems, graph, task_queue, merge_queue, running,
                       procs, events, ret, relSum, svc, co, search>>

\* cancel_task(task_id) for a known task; hist keeps the value returned.
CancelTask ==
    \E t \in TaskIds :
        /\ tasks[t].status # "none"
        /\ IF is_finished(tasks[t])
           THEN /\ hist' = [hist EXCEPT !.refused =
                               IF InMergeStage(t) THEN @ \cup {t} ELSE @]
                /\ UNCHANGED tasks
           ELSE /\ tasks' = [tasks EXCEPT ![t] = task_cancel(@)]
                /\ hist' = [hist EXCEPT !.cancel_ok = @ \cup {t}]
        /\ UNCHANGED <<systems, graph, task_queue, merge_queue, running,
                       procs, events, ret, relSum, svc, co, search>>

(***************************************************************************)
(* The replies of the completion service, as far as the pipeline reads     *)
(* them.                                                                   *)
(***************************************************************************)
\* _check_and_generate_async: "SUFFICIENT", an incremental configuration
\* that adds the class app, or an exception of the client.
UpdateOutcomes == {"sufficient", "add_class", "error"}

AddedClass == [name |-> "app", properties |-> {"ver"}]

\* SystemUpdater._apply_update(system, incremental_config)
apply_update(sys, outcome) ==
    IF outcome = "add_class"
    THEN add_class_definition(sys, AddedClass.name, AddedClass.properties)
    ELSE sys

\* _run_task lines 622-662: the class deltas of the added classes
ClassDeltas(outcome) == IF outcome = "add_class" THEN <<AddedClass>> ELSE << >>

\* _extract_async: no record, or a reply with a property suggestion for the
\* class person, the entity c and the relationship a -> b, or an exception.
ExtractOutcomes == {"nothing", "records", "error"}

\* GraphExtractor._parse_and_apply_property_suggestions: the suggested
\* property is added to the extractor's system.
apply_property_suggestions(sys, outcome) ==
    IF outcome = "records" THEN add_property(sys, "person", "city") ELSE sys

\* GraphExtractor._parse_response: the entities and relationships of the
\* reply.  The class-binding records give the entity c the class person and
\* a value for its properties age and city (_parse_class_property, lines
\* 596-633, with the extractor's system, which Step 0 has extended).
ExtractedEntities(sys, outcome) ==
    IF outcome = "records"
    THEN <<set_property_value(sys,
               set_property_value(sys, Entity("c", {"person"}),
                                  "person", "age", "v"),
               "person", "city", "v")>>
    ELSE << >>

ExtractedRelationships(outcome) ==
    IF outcome = "records"
    THEN <<Relationship("a", "b", "d", 1, << >>, <<"t1">>)>>
    ELSE << >>

\* _run_task lines 780-811: entities and relationships become delta records;
\* the RelationshipDelta is built without semantic_times.
BuildDelta(class_deltas, entities, relationships) ==
    GraphDelta(class_deltas, entities,
               [i \in DOMAIN relationships |->
                   RelationshipDelta(
                       [relationships[i] EXCEPT !.semantic_times = << >>],
                       "add", 0)])

\* MergeResult (smart_merger.py 29-52): the optimized delta and the merge
\* counters, which default to 0.
MergeResult(optimized_delta, duplicates_found, conflicts_resolved, names_aligned, descriptions_optimized) ==
    [optimized_delta |-> optimized_delta,
     duplicates_found |-> duplicates_found,
     conflicts_resolved |-> conflicts_resolved,
     names_aligned |-> names_aligned,
     descriptions_optimized |-> descriptions_optimized]

\* SmartMerger._simple_merge: the delta as it is, every counter at its default
simple_merge(delta) == MergeResult(delta, 0, 0, 0, 0)

\* What the smart merge can bring about: no call of the completion service
\* (enable_smart_merge off or no prompt template), a reply that json.loads
\* rejects, or a reply that names an entity of a class nobody defined.
MergeOutcomes == {"simple", "unparsable", "undefined_class"}

\* The reply of the completion service for a delta: text that is JSON or not;
\* the optimized records stand for the JSON text (_build_optimized_delta is
\* modelled by build_optimized_delta and driven by GMergeReply).
LlmResponse(delta, outcome) ==
    IF outcome = "unparsable"
    THEN [json |-> FALSE]
    ELSE [json |-> TRUE,
          optimized |-> [delta EXCEPT
                            !.entities = Append(@, Entity("x", {"ghost"}))],
          merge_summary |-> [duplicates_found |-> <<1>>,
                             conflicts_resolved |-> << >>,
                             names_aligned |-> <<1>>,
                             descriptions_optimized |-> << >>]]

\* SmartMerger._parse_llm_response: json.loads raises on text that is not
\* JSON (<< >>), and returns the parsed data otherwise.
parse_llm_response(response) ==
    IF response.json THEN <<response>> ELSE << >>

\* SmartMerger._llm_merge without the 'except Exception' of lines 222-227: a
\* reply that cannot be parsed leaves nothing to merge.
llm_merge_without_fallback(delta, response) ==
    LET parsed == parse_llm_response(response) IN
    IF parsed = << >>
    THEN MergeResult(GraphDelta(<< >>, << >>, << >>), 0, 0, 0, 0)
    ELSE MergeResult(parsed[1].optimized,
                     Get(parsed[1].merge_summary.duplicates_found, 0),
                     Get(parsed[1].merge_summary.conflicts_resolved, 0),
                     Get(parsed[1].merge_summary.names_aligned, 0),
                     Get(parsed[1].merge_summary.descriptions_optimized, 0))

\* SmartMerger._llm_merge, lines 200-227: parse the reply and build the
\* result; any exception on the way falls back to _simple_merge.
llm_merge(delta, response) ==
    LET parsed == parse_llm_response(response) IN
    IF parsed = << >>
    THEN simple_merge(delta)
    ELSE MergeResult(parsed[1].optimized,
                     Get(parsed[1].merge_summary.duplicates_found, 0),
                     Get(parsed[1].merge_summary.conflicts_resolved, 0),
                     Get(parsed[1].merge_summary.names_aligned, 0),
                     Get(parsed[1].merge_summary.descriptions_optimized, 0))

\* SmartMerger.merge_delta, lines 102-128
merge_delta(delta, outcome) ==
    IF outcome = "simple"
    THEN simple_merge(delta)
    ELSE llm_merge(delta, LlmResponse(delta, outcome))

(***************************************************************************)
(* _worker: the extract workers.                                           *)
(***************************************************************************)
\* The worker of record w is back at the top of its loop: it waits on the
\* queue again if _running, and ends otherwise.
WorkerLeaves(w) ==
    [procs EXCEPT !.busy = @ \ {w}, !.idle = IF running THEN @ + 1 ELSE @]

\* lines 855-869 and _run_task 503-526: dequeue, task.start(), 'started',
\* _check_cancelled, 'system_update', await _step_update_system
WorkerDequeue ==
    /\ running
    /\ procs.idle > 0
    /\ task_queue # << >>
    /\ LET got == queue_get(task_queue)
           t == got.item
           task1 == task_start(tasks[t])
           ev1 == notify_progress(events, t, "started")
       IN /\ task_queue' = got.rest
          /\ IF check_cancelled(task1)
             THEN /\ tasks' = [tasks EXCEPT ![t] = task_cancel(task1)]
                  /\ events' = notify_progress(ev1, t, "cancelled")
                  /\ UNCHANGED procs
             ELSE /\ tasks' = [tasks EXCEPT ![t] = task1]
                  /\ events' = notify_progress(ev1, t, "system_update")
                  /\ procs' = [procs EXCEPT
                        !.idle = @ - 1,
                        !.busy = @ \cup {[task |-> t, pc |-> "update",
                                          cancelling |-> FALSE,
                                          class_deltas |-> << >>]}]
    /\ UNCHANGED <<systems, graph, merge_queue, running, hist, ret, relSum, svc, co, search>>

\* _run_task 526-670: _step_update_system returns or raises; 'system_update',
\* the class deltas, _check_cancelled, 'extraction', await _step_extract
WorkerUpdateReturns ==
    \E w \in procs.busy, outcome \in UpdateOutcomes :
        /\ w.pc = "update"
        /\ ~w.cancelling
        /\ LET t == w.task
               sid == run_task_system(tasks[t])
               ev1 == notify_progress(events, t, "system_update")
           IN IF outcome = "error"
              THEN /\ tasks' = [tasks EXCEPT ![t] = task_fail(@)]
                   /\ events' = notify_progress(events, t, "failed")
                   /\ procs' = WorkerLeaves(w)
                   /\ UNCHANGED systems
              ELSE /\ systems' = [systems EXCEPT ![sid] = apply_update(@, outcome)]
                   /\ IF check_cancelled(tasks[t])
                      THEN /\ tasks' = [tasks EXCEPT ![t] = task_cancel(@)]
                           /\ events' = notify_progress(ev1, t, "cancelled")
                           /\ procs' = WorkerLeaves(w)
                      ELSE /\ events' = notify_progress(ev1, t, "extraction")
                           /\ procs' = [procs EXCEPT !.busy = (@ \ {w}) \cup
                                 {[w EXCEPT !.pc = "extract",
                                            !.class_deltas = ClassDeltas(outcome)]}]
                           /\ UNCHANGED tasks
        /\ UNCHANGED <<graph, task_queue, merge_queue, running, hist, ret,
                       relSum, svc, co, search>>

\* _run_task 683-814 and _worker 869-888: _step_extract returns or raises;
\* the property suggestions, 'extraction', the delta, _check_cancelled,
\* task.complete(delta), 'extraction_completed', merge_queue.put(task)
WorkerExtractReturns ==
    \E w \in procs.busy, outcome \in ExtractOutcomes :
        /\ w.pc = "extract"
        /\ ~w.cancelling
        /\ LET t == w.task
               sid == run_task_system(tasks[t])
               ev1 == notify_progress(events, t, "extraction")
               delta == BuildDelta(w.class_deltas,
                                   ExtractedEntities(
                                       apply_property_suggestions(systems[sid],
                                                                  outcome),
                                       outcome),
                                   ExtractedRelationships(outcome))
           IN IF outcome = "error"
              THEN /\ tasks' = [tasks EXCEPT ![t] = task_fail(@)]
                   /\ events' = notify_progress(events, t, "failed")
                   /\ UNCHANGED <<systems, merge_queue, hist, co, search>>
              ELSE /\ systems' = [systems EXCEPT
                                     ![sid] = apply_property_suggestions(@, outcome)]
                   /\ IF check_cancelled(tasks[t])
                      THEN /\ tasks' = [tasks EXCEPT ![t] = task_cancel(@)]
                           /\ events' = notify_progress(ev1, t, "cancelled")
                           /\ UNCHANGED <<merge_queue, hist, co, search>>
                      ELSE /\ tasks' = [tasks EXCEPT ![t] = task_complete(@, delta)]
                           /\ events' = notify_progress(ev1, t, "extraction_completed")
                           /\ merge_queue' = queue_put(merge_queue, t)
                           /\ hist' = [hist EXCEPT !.enqueued = Append(@, t)]
        /\ procs' = WorkerLeaves(w)
        /\ UNCHANGED <<graph, task_queue, running, ret, relSum, svc, co, search>>

\* The handler below, falling through to the enqueue of the task.
WorkerCancelledThenEnqueues ==
    \E w \in procs.busy :
        /\ w.cancelling
        /\ tasks' = [tasks EXCEPT ![w.task] = task_cancel(@)]
        /\ events' = notify_progress(events, w.task, "cancelled")
        /\ merge_queue' = Append(merge_queue, w.task)
        /\ hist' = [hist EXCEPT !.enqueued = Append(@, w.task)]
        /\ procs' = WorkerLeaves(w)
        /\ UNCHANGED <<systems, graph, task_queue, running, ret, relSum, svc, co, search>>

\* _worker 890-895: the CancelledError that stop() sent reaches a worker
\* inside _run_task: task.cancel(), 'cancelled'
WorkerCancelled ==
    \E w \in procs.busy :
        /\ w.cancelling
        /\ tasks' = [tasks EXCEPT ![w.task] = task_cancel(@)]
        /\ events' = notify_progress(events, w.task, "cancelled")
        /\ procs' = WorkerLeaves(w)
        /\ UNCHANGED <<systems, graph, task_queue, merge_queue, running, hist,
                       ret, relSum, svc, co, search>>

(***************************************************************************)
(* GraphService (backend/graph_service.py): the progress callback and the  *)
(* auto-save.  svc.saves[t] is the place of the delayed_save coroutine     *)
(* scheduled for task t: "none", "sleep0" (created, or suspended in        *)
(* asyncio.sleep(0)), "sleep1" (suspended in asyncio.sleep(0.1)), and,     *)
(* once it has ended, the event it put on task_events ("auto_save",        *)
(* "auto_save_error") or "skipped".                                        *)
(***************************************************************************)
\* _on_progress line 123: the step that schedules delayed_save
\* (SaveTriggerMerging: the save scheduled when the merge begins;
\* SaveTriggerAnyEnd: the save scheduled after a failed merge too).
SaveTriggerMerging == {"merging"}

SaveTriggerAnyEnd == {"completed", "merge_failed"}

SaveTrigger == {"completed"}

\* _on_progress(task_id, step, data), as far as the auto-save goes
on_progress(s, t, step) ==
    IF s.attached /\ step \in SaveTrigger /\ s.auto_save_enabled
    THEN [s EXCEPT !.saves[t] = "sleep0"]
    ELSE s

\* delayed_save lines 138-143: the status that lets the save go on
save_verified(task) == task.status = "completed"

\* _auto_save_after_task: the event put on task_events after the write
\* succeeded or raised (auto_save_uncaught: the error is not caught, and no
\* event is put).
auto_save_uncaught(written) == IF written THEN "auto_save" ELSE "skipped"

auto_save_after_task(written) ==
    IF written THEN "auto_save" ELSE "auto_save_error"

\* set_auto_save(enabled)
SetAutoSave ==
    /\ \E enabled \in BOOLEAN :
          svc' = [svc EXCEPT !.auto_save_enabled = enabled]
    /\ UNCHANGED <<systems, graph, pipelineVars, ret, relSum>>

\* delayed_save line 128: asyncio.sleep(0) returns
SaveWakes ==
    /\ \E t \in TaskIds :
          /\ svc.saves[t] = "sleep0"
          /\ svc' = [svc EXCEPT !.saves[t] = "sleep1"]
    /\ UNCHANGED <<systems, graph, pipelineVars, ret, relSum>>

\* delayed_save lines 131-146 and _auto_save_after_task: asyncio.sleep(0.1)
\* returns, the status is verified, the database is written and the event is
\* put on task_events; nothing in between suspends.
SaveRuns ==
    /\ \E t \in TaskIds, written \in BOOLEAN :
          /\ svc.saves[t] = "sleep1"
          /\ IF ~save_verified(tasks[t])
             THEN svc' = [svc EXCEPT !.saves[t] = "skipped"]
             ELSE \E file \in IF written THEN {Written(systems[0], graph)}
                               ELSE {svc.disk, Unreadable} :
                     svc' = [svc EXCEPT
                                !.saves[t] = auto_save_after_task(written),
                                !.disk = file]
    /\ UNCHANGED <<systems, graph, pipelineVars, ret, relSum>>

(***************************************************************************)
(* _merge_worker: the merge worker.                                        *)
(***************************************************************************)
\* _auto_merge 997-999: nothing to merge
AutoMergeSkips(task) ==
    task.result_delta = << >> \/ is_empty(task.result_delta[1])

\* lines 931-949: dequeue, 'merging', _auto_merge; with nothing to merge
\* _auto_merge returns without waiting and 'completed' follows at once,
\* otherwise the worker waits for SmartMerger.merge_delta
MergeWorkerDequeue ==
    /\ running
    /\ procs.merge_idle > 0
    /\ merge_queue # << >>
    /\ LET got == queue_get(merge_queue)
           t == got.item
           ev1 == notify_progress(events, t, "merging")
       IN /\ merge_queue' = got.rest
          /\ hist' = [hist EXCEPT !.merging = Append(@, t)]
          /\ IF AutoMergeSkips(tasks[t])
             THEN /\ events' = notify_progress(ev1, t, "completed")
                  /\ svc' = on_progress(on_progress(svc, t, "merging"),
                                        t, "completed")
                  /\ UNCHANGED procs
             ELSE /\ events' = ev1
                  /\ svc' = on_progress(svc, t, "merging")
                  /\ procs' = [procs EXCEPT !.merge_idle = @ - 1,
                                            !.merging = @ \cup {t}]
    /\ UNCHANGED <<systems, graph, tasks, task_queue, running, ret, relSum, co, search>>

\* The catalog as pairs: <<class, "">> for a class that is defined and
\* <<class, property>> for a property it declares.
CatalogPairs(sys) ==
    UNION {{<<k, p>> : p \in {""} \cup sys[k]} : k \in DOMAIN sys}

\* What a call of _apply_merge_result added to the catalog.
Gained(before, after) == CatalogPairs(after) \ CatalogPairs(before)

\* hist.replies keeps what merge_delta was given and returned; it is kept for
\* the coordinator on its own, not under the service.
\* _auto_merge 1027-1036 and lines 952-972: merge_delta returns, the optimized
\* delta is applied; 'completed', or task.fail() and 'merge_failed' when
\* _apply_merge_result raised
MergeWorkerReturns ==
    \E t \in procs.merging, outcome \in MergeOutcomes :
        LET merge_result == merge_delta(tasks[t].result_delta[1], outcome)
            optimized_delta == merge_result.optimized_delta
            r == apply_merge_result(systems[0], graph, optimized_delta)
        IN /\ systems' = [systems EXCEPT ![0] = r.system]
           /\ hist' = [hist EXCEPT !.applied[t] = <<optimized_delta>>,
                                   !.gained[t] = Gained(systems[0], r.system),
                                   !.replies[t] =
                                       IF svc.attached THEN << >>
                                       ELSE <<outcome, merge_result>>]
           /\ graph' = r.graph
           /\ IF r.ok
              THEN /\ events' = notify_progress(events, t, "completed")
                   /\ svc' = on_progress(svc, t, "completed")
                   /\ UNCHANGED tasks
              ELSE /\ tasks' = [tasks EXCEPT ![t] = task_fail(@)]
                   /\ events' = notify_progress(events, t, "merge_failed")
                   /\ svc' = on_progress(svc, t, "merge_failed")
           /\ procs' = [procs EXCEPT !.merging = @ \ {t},
                                     !.merge_idle = IF running THEN @ + 1 ELSE @]
           /\ UNCHANGED <<task_queue, merge_queue, running, ret, relSum, co, search>>

(***************************************************************************)
(* GraphService (backend/graph_service.py): the editing operations of the  *)
(* service work on SimpleGraph.system and SimpleGraph.graph directly.      *)
(***************************************************************************)
\* add_class_to_system(class_name, description, properties)
AddClassToSystem ==
    /\ ret.n < MaxEdits
    /\ \E class_name \in {"tool"} :
        /\ systems' = [systems EXCEPT
                          ![0] = add_class_definition(@, class_name, {})]
        /\ ret' = [op |-> "add_class_to_system", n |-> ret.n + 1]
    /\ UNCHANGED <<graph, relSum, pipelineVars, svc>>

\* update_entity(entity_name, add_classes=[class_name])
UpdateEntity ==
    /\ ret.n < MaxEdits
    /\ \E entity_name \in {"b", "c"}, class_name \in {"person"} :
        /\ graph' =
             IF Upper(entity_name) \in DOMAIN graph.entities
                /\ class_name \notin graph.entities[Upper(entity_name)].classes
             THEN entity_add_class(systems[0], graph, entity_name, class_name)
             ELSE graph
        /\ ret' = [op |-> "update_entity", n |-> ret.n + 1]
    /\ UNCHANGED <<systems, relSum, pipelineVars, svc>>

(***************************************************************************)
(* Spec: the coordinator and the service.                                  *)
(***************************************************************************)
Next ==
    \/ Start
    \/ Stop
    \/ SubmitTask
    \/ CancelTask
    \/ WorkerDequeue
    \/ WorkerUpdateReturns
    \/ WorkerExtractReturns
    \/ WorkerCancelled
    \/ MergeWorkerDequeue
    \/ MergeWorkerReturns
    \/ AddClassToSystem
    \/ UpdateEntity

Spec == Init /\ [][Next]_vars

(***************************************************************************)
(* SpecLive: the coordinator that is started and not stopped, with nothing *)
(* cancelling its workers.  The event loop runs every coroutine that is    *)
(* ready, and every call of the completion service returns: each step of   *)
(* an extract worker and of the merge worker that stays possible is taken. *)
(***************************************************************************)
NextLive ==
    \/ Start
    \/ SubmitTask
    \/ CancelTask
    \/ WorkerDequeue
    \/ WorkerUpdateReturns
    \/ WorkerExtractReturns
    \/ MergeWorkerDequeue
    \/ MergeWorkerReturns

Fairness ==
    /\ WF_vars(WorkerDequeue)
    /\ WF_vars(WorkerUpdateReturns)
    /\ WF_vars(WorkerExtractReturns)
    /\ WF_vars(MergeWorkerDequeue)
    /\ WF_vars(MergeWorkerReturns)

SpecLive == Init /\ [][NextLive]_vars /\ Fairness

(***************************************************************************)
(* SpecService: the coordinator as GraphService runs it, with              *)
(* GraphService._on_progress as its progress callback.                     *)
(***************************************************************************)
InitService ==
    PipelineInit /\ StoreInit /\ ServiceInit(TRUE) /\ search = NoSearch(NoStore)

NextService ==
    \/ Start
    \/ Stop
    \/ SubmitTask
    \/ CancelTask
    \/ WorkerDequeue
    \/ WorkerUpdateReturns
    \/ WorkerExtractReturns
    \/ WorkerCancelled
    \/ MergeWorkerDequeue
    \/ MergeWorkerReturns
    \/ AddClassToSystem
    \/ UpdateEntity
    \/ SetAutoSave
    \/ SaveWakes
    \/ SaveRuns

SpecService == InitService /\ [][NextService]_vars

(***************************************************************************)
(* Properties of the pipeline, checked under Spec.                         *)
(***************************************************************************)
Last(s) == s[Len(s)]

IsPrefix(s, full) == Len(s) <= Len(full) /\ s = SubSeq(full, 1, Len(s))

\* The tasks whose latest delivered label is step.
LatestIs(step) == {t \in TaskIds : events[t] # << >> /\ Last(events[t]) = step}

\* Task t received a label in this step, and the latest one is in steps.
Delivered(t, steps) ==
    Len(events'[t]) > Len(events[t]) /\ Last(events'[t]) \in steps

\* C1: once the coordinator has been started, at most one task is inside the
\* merge step at any moment: at most one merge worker exists and it holds at
\* most one task, and as long as the coordinator has not been stopped the
\* tasks between their 'merging' label and their 'completed'/'merge_failed'
\* label are exactly the tasks a merge worker holds.
C1_OneMergeAtATime ==
    /\ Cardinality(procs.merging) + procs.merge_idle <= 1
    /\ procs.merging \subseteq LatestIs("merging")
    /\ (running /\ hist.starts = 1) => LatestIs("merging") = procs.merging

\* C1 witness: one task is being merged while the other one, whose extraction
\* has completed too, waits in the merge queue.
C1_Witness ==
    /\ Cardinality(procs.merging) = 1
    /\ merge_queue # << >>
    /\ LatestIs("extraction_completed") # {}

\* C2: tasks are merged in exactly the order in which they were put on the
\* merge queue: the sequence of 'merging' labels is a prefix of the sequence
\* of enqueues, whatever the order of submission.
C2_MergeOrderIsEnqueueOrder == IsPrefix(hist.merging, hist.enqueued)

\* C2 witness: task 2, submitted second, was enqueued and merged first.
C2_Witness == hist.enqueued = <<2, 1>> /\ hist.merging = <<2, 1>>

\* The labels a task that runs to the end of its extraction and into its
\* merge delivers: 'system_update' and 'extraction' are delivered at the
\* start and at the end of their step.
DeliveredGrammar ==
    <<"started", "system_update", "system_update", "extraction", "extraction",
      "extraction_completed", "merging">>

\* The grammar as claimed.
ClaimedGrammar ==
    <<"submitted", "started", "system_update", "extraction",
      "extraction_completed", "merging">>

\* ev follows grammar g: a run in progress, a run that ended early (after at
\* least first labels and before the last two) with cancelled or failed,
\* or a complete run that ended with completed or merge_failed.
Follows(ev, g, first) ==
    \/ IsPrefix(ev, g)
    \/ \E k \in first .. (Len(g) - 2), x \in {"cancelled", "failed"} :
          ev = Append(SubSeq(g, 1, k), x)
    \/ \E x \in {"completed", "merge_failed"} : ev = Append(g, x)

\* C3 (amended): the labels delivered to the progress callback for a task
\* follow started, system_update (twice), extraction (twice),
\* extraction_completed, merging, then completed or merge_failed, or end
\* early, after started and before extraction_completed, with cancelled or
\* failed; the submission is not delivered to the callback; nothing follows
\* a terminal label.
C3_DeliveredLabelsFollowGrammar ==
    \A t \in TaskIds : Follows(events[t], DeliveredGrammar, 1)

\* C3 (as claimed): the labels follow submitted, started, system_update,
\* extraction, extraction_completed, merging, then completed or
\* merge_failed, or end early with cancelled or failed.
C3_AsClaimed ==
    \A t \in TaskIds : Follows(events[t], ClaimedGrammar, 0)

\* C3 witness: one task ran into a failed merge and the other one was
\* cancelled at the boundary between system update and extraction.
C3_Witness ==
    /\ \E t \in TaskIds : events[t] = Append(DeliveredGrammar, "merge_failed")
    /\ \E t \in TaskIds :
          events[t] = <<"started", "system_update", "system_update", "cancelled">>

\* The snapshot of task t; the canonical System is object 0.
SnapshotOf(t) == systems[tasks[t].system_snapshot]

ExtractSteps ==
    {"started", "system_update", "extraction", "extraction_completed",
     "cancelled", "failed"}

MergeSteps == {"completed", "merge_failed"}

\* C4: during the whole extract phase of a task (system update, property
\* suggestions, extraction) the canonical System and the canonical Graph are
\* left unchanged, and so is the snapshot of every other task: every step of
\* an extract worker on task t changes at most the snapshot of t.
C4_ExtractTouchesOwnSnapshotOnly ==
    [][\A t \in TaskIds :
          Delivered(t, ExtractSteps)
          => /\ systems'[0] = systems[0]
             /\ graph' = graph
             /\ \A u \in TaskIds \ {t} :
                   systems'[tasks[u].system_snapshot] = SnapshotOf(u)]_vars

\* C4 witness: an extraction has completed whose system update added a class
\* to the task's snapshot and whose property suggestion added a property to
\* it, while the canonical System and Graph are as they were initially.
C4_Witness ==
    /\ \E t \in LatestIs("extraction_completed") :
          /\ "APP" \in DOMAIN SnapshotOf(t)
          /\ "city" \in SnapshotOf(t)["PERSON"]
    /\ systems[0] = InitialSystem
    /\ graph = InitialGraph

\* A step of one of the service's editing operations.
EditStep ==
    ret'.n = ret.n + 1 /\ ret'.op \in {"add_class_to_system", "update_entity"}

CanonicalChanges == systems'[0] # systems[0] \/ graph' # graph

\* C5 (amended): within the task pipeline (start, stop, submit, cancel, the
\* extract workers and the merge worker) every change of the canonical System
\* or Graph is made by the merge worker; the editing operations of the
\* service layer (add_class_to_system, update_entity) change them as well.
C5_PipelineChangesCanonicalOnlyInMerge ==
    [][CanonicalChanges
       => \/ \E t \in TaskIds : Delivered(t, MergeSteps)
          \/ EditStep]_vars

\* C5 (as claimed): every change of the canonical System or Graph is made by
\* the merge worker; no other operation of the coordinator or of its service
\* layer changes them.
C5_AsClaimed ==
    [][CanonicalChanges => \E t \in TaskIds : Delivered(t, MergeSteps)]_vars

\* C5 witness: without any edit by the service, a merge has failed after it
\* had added the task's class to the canonical System, and another merge has
\* changed the canonical Graph.
C5_Witness ==
    /\ ret.n = 0
    /\ LatestIs("merge_failed") # {}
    /\ LatestIs("completed") # {}
    /\ "APP" \in DOMAIN systems[0]
    /\ graph # InitialGraph

\* The tasks whose extract phase has not changed their snapshot yet: they
\* wait in the extract queue, or their worker waits for the system update.
BeforeOwnChanges ==
    {t \in TaskIds : \/ \E i \in DOMAIN task_queue : task_queue[i] = t
                     \/ \E w \in procs.busy : w.task = t /\ w.pc = "update"}

\* C6: a task's system_snapshot equals the canonical System as it was when
\* submit_task ran; merges of other tasks and edits that happen after the
\* submission and before the task's extraction starts do not show in it.
C6_SnapshotIsSubmitTimeSystem ==
    \A t \in BeforeOwnChanges :
        /\ tasks[t].system_snapshot # 0
        /\ SnapshotOf(t) = hist.submitted[t]

\* C6 witness: a task is about to be extracted with the catalog of its
\* submission although a merge has changed the canonical System since.
C6_Witness ==
    /\ ret.n = 0
    /\ \E t \in BeforeOwnChanges :
          /\ \E w \in procs.busy : w.task = t
          /\ SnapshotOf(t) = hist.submitted[t]
          /\ systems[0] # hist.submitted[t]

(***************************************************************************)
(* Cancellation.                                                           *)
(***************************************************************************)
Has(t, step) == \E i \in DOMAIN events[t] : events[t][i] = step

Terminal == {"completed", "merge_failed", "failed", "cancelled"}

\* C12: once a task's extraction has finished (the task is in the merge
\* queue or inside the merge worker) a cancellation request cannot stop it:
\* cancel_task returns False for it, the task never becomes cancelled and
\* never delivers 'cancelled', and it leaves the merge stage only by being
\* merged ('completed' or 'merge_failed'), unless stop() ends the workers.
C12_MergeStageNotCancellable ==
    /\ [](\A t \in TaskIds :
             Has(t, "extraction_completed")
             => /\ t \notin hist.cancel_ok
                /\ ~is_cancelled(tasks[t])
                /\ ~Has(t, "cancelled"))
    /\ [](hist.refused \cap hist.cancel_ok = {})
    /\ [][\A t \in TaskIds :
             InMergeStage(t) => (t \in hist.cancel_ok' <=> t \in hist.cancel_ok)]_vars
    /\ [][\A t \in TaskIds :
             InMergeStage(t)
             => \/ InMergeStage(t)'
                \/ Delivered(t, MergeSteps)
                \/ (running /\ ~running')]_vars

\* C12 witness: cancel_task returned False for a task that was in the merge
\* stage, and the task has since been merged: its entity is in the graph.
C12_Witness ==
    \E t \in hist.refused :
        /\ Last(events[t]) = "completed"
        /\ tasks[t].result_delta # << >>
        /\ tasks[t].result_delta[1].entities # << >>
        /\ "C" \in DOMAIN graph.entities

\* What holds of a task for which cancel_task returned True: it was never
\* put on the merge queue, never held by the merge worker, and no delta was
\* attached to it; a terminal label, if any, is one of last.
CancelledOutcome(t, last) ==
    /\ \A i \in DOMAIN hist.enqueued : hist.enqueued[i] # t
    /\ \A i \in DOMAIN hist.merging : hist.merging[i] # t
    /\ t \notin procs.merging
    /\ tasks[t].result_delta = << >>
    /\ (events[t] # << >> /\ Last(events[t]) \in Terminal)
       => Last(events[t]) \in last

SavePuts(t, ev) == svc.saves[t] = "sleep1" /\ svc'.saves[t] = ev

\* A database file holds everything delta brings: its classes with their
\* properties, its entities with their classes, and, for each relationship
\* between nodes the file has, a relationship of the same identity key
\* whose count is at least the count brought.
FileHoldsDelta(file, delta) ==
    /\ \A i \in DOMAIN delta.classes :
          /\ Upper(delta.classes[i].name) \in DOMAIN file.system
          /\ delta.classes[i].properties
                \subseteq file.system[Upper(delta.classes[i].name)]
    /\ \A i \in DOMAIN delta.entities :
          \E e \in file.entities :
              /\ Upper(e.name) = Upper(delta.entities[i].name)
              /\ delta.entities[i].classes \subseteq e.classes
    /\ \A i \in DOMAIN delta.relationships :
          \E r \in file.relationships :
              /\ Key(r) = Key(delta.relationships[i])
              /\ r.count >= delta.relationships[i].count

SaveWrites ==
    \E t \in TaskIds : SavePuts(t, "auto_save") /\ svc'.disk # NoFile /\ svc'.disk[1].ok

\* A file holds nothing of what the application of task u's delta added to
\* the catalog.
FileHoldsNothing(file, u) ==
    CatalogPairs(file.system) \cap hist.gained[u] = {}

\* C15: every snapshot written by auto-save contains, for each task whose
\* delta was applied, either the whole effect of that delta or none of it,
\* whatever merges ran between the 'completed' event and the write.
C15_SnapshotHoldsWholeDeltas ==
    [][SaveWrites =>
          \A u \in TaskIds :
              hist.applied[u] # << >> =>
                  \/ FileHoldsDelta(svc'.disk[1].file, hist.applied[u][1])
                  \/ FileHoldsNothing(svc'.disk[1].file, u)]_vars


\* The delayed save of task t passes the status check in this step and its
\* write of the database raises.
WriteFails(t) ==
    /\ svc.saves[t] = "sleep1"
    /\ save_verified(tasks[t])
    /\ svc'.saves[t] # svc.saves[t]
    /\ svc'.saves[t] # "auto_save"

\* C16: when the write of the auto-save of task t fails, 'auto_save_error'
\* is emitted, t stays completed, no task changes its status, and the
\* extract workers and the merge worker go on as they were.
C16_SaveFailureIsReported ==
    /\ [][\A t \in TaskIds :
             WriteFails(t) =>
                 /\ svc'.saves[t] = "auto_save_error"
                 /\ tasks'[t].status = "completed"
                 /\ UNCHANGED <<tasks, procs, running, task_queue, merge_queue,
                                events, systems, graph, co, search>>]_vars
    /\ [](\A t \in TaskIds :
             svc.saves[t] = "auto_save_error" => tasks[t].status = "completed")

\* The write for a completed task failed and left an unreadable file, while
\* the merge worker is merging another task and the workers are running.
C16_Witness ==
    \E t \in TaskIds :
        /\ svc.saves[t] = "auto_save_error"
        /\ svc.disk = Unreadable
        /\ tasks[t].status = "completed"
        /\ running
        /\ procs.merging # {}
        /\ t \notin procs.merging


(***************************************************************************)
(* Progress of the tasks, checked under SpecLive.                          *)
(***************************************************************************)
\* Task t has delivered a terminal label.
Ended(t) == \E step \in Terminal : Has(t, step)

\* C20: while the coordinator runs, every submitted task eventually delivers
\* a terminal label (completed, merge_failed, failed or cancelled): none
\* waits in a queue forever and none is dropped, whatever waits for the
\* merge worker.
C20_EveryTaskEnds ==
    \A t \in TaskIds : (tasks[t].status # "none" /\ running) ~> Ended(t)

\* Every task was submitted and has ended, after all of them waited in the
\* merge queue together.
C20_Witness ==
    /\ running
    /\ \A t \in TaskIds : Ended(t) /\ Has(t, "merging")
    /\ hist.enqueued = hist.merging
    /\ \A i \in DOMAIN hist.merging : hist.merging[i] = i
    /\ \E t \in TaskIds : Last(events[t]) = "merge_failed"


(***************************************************************************)
(* Task statuses, checked under Spec.                                      *)
(***************************************************************************)
\* The moves of a status that go forward: to pending on submit, from
\* pending to running or to a terminal status, from running to a terminal one.
TerminalStatus == {"completed", "failed", "cancelled"}

Forward ==
    {<<"none", "pending">>, <<"pending", "running">>}
    \cup {<<from, to>> : from \in {"pending", "running"}, to \in TerminalStatus}

\* C21: the status of a task only moves forward along pending, running and
\* one terminal status (completed, failed, cancelled), and a terminal status
\* never changes again.
C21_StatusMonotonic ==
    [][\A t \in TaskIds :
          tasks'[t].status # tasks[t].status =>
              <<tasks[t].status, tasks'[t].status>> \in Forward]_vars


(***************************************************************************)
(* start() and stop() at the grain of their awaits.  co.gen[g] holds the   *)
(* workers the g-th effective start() created: how many extract workers    *)
(* are suspended in wait_for(task_queue.get()) (get), how many are inside   *)
(* _run_task (run), the same with a cancel() requested and not yet          *)
(* delivered (get_c, run_c), and where the merge worker is.  co.refs is     *)
(* the set of start() calls whose workers _worker_tasks and                 *)
(* _merge_worker_task refer to; co.gathers holds, per stop() suspended in   *)
(* gather, the workers it waits for.  _merge_worker_task is one reference   *)
(* that start() overwrites; the merge worker it replaces was cancelled by   *)
(* the stop() that cleared _running, so cancelling it again changes nothing *)
(* and one set of referenced start() calls stands for both fields.          *)
(***************************************************************************)
Alive(w) == w.get + w.get_c + w.run + w.run_c

MergeAlive(w) == w.merge \in {"get", "get_c", "merge", "merge_c"}

WorkersEnded(w) == Alive(w) = 0 /\ ~MergeAlive(w)

\* Task.cancel() on every worker of one start() call: the CancelledError is
\* raised at the worker's next step; a finished worker is left alone.
cancel_workers(w) ==
    [get |-> 0, get_c |-> w.get_c + w.get, run |-> 0, run_c |-> w.run_c + w.run,
     merge |-> CASE w.merge = "get" -> "get_c"
                 [] w.merge = "merge" -> "merge_c"
                 [] OTHER -> w.merge]

\* The event loop runs its ready callbacks in FIFO order: a cancelled worker
\* receives its CancelledError before a worker that becomes ready later
\* takes its next step.
CancelPending ==
    \E g \in Gens : \/ co.gen[g].get_c + co.gen[g].run_c > 0
                    \/ co.gen[g].merge \in {"get_c", "merge_c"}

restartRest == <<systems, graph, tasks, task_queue, merge_queue, running, procs,
                 events, hist, ret, relSum, svc, search>>

\* SimpleGraph.start: returns at once when _running is set; else sets it,
\* creates max_concurrent_tasks extract workers and one merge worker and
\* appends them to the references.
StartCall ==
    /\ co.starts < MaxRestarts
    /\ IF co.running
       THEN UNCHANGED co
       ELSE LET g == co.starts + 1
            IN  co' = [co EXCEPT !.running = TRUE,
                                 !.starts = g,
                                 !.refs = @ \cup {g},
                                 !.gen[g] = [NoWorkers EXCEPT
                                                !.get = max_concurrent_tasks,
                                                !.merge = "get"]]
    /\ UNCHANGED restartRest

\* SimpleGraph.stop up to its await: returns at once when _running is not
\* set; else clears it and cancels every referenced worker.  gather() of no
\* awaitables is done at once, so stop() then goes on to clear the references
\* without giving up control; otherwise it waits.
StopCancels ==
    /\ co.running
    /\ co' = [co EXCEPT !.running = FALSE,
                        !.gen = [g \in Gens |->
                                    IF g \in co.refs THEN cancel_workers(co.gen[g])
                                    ELSE co.gen[g]],
                        !.gathers = IF co.refs = {} THEN @ ELSE @ \cup {co.refs}]
    /\ UNCHANGED restartRest

\* SimpleGraph.stop after its await: every gathered worker has ended;
\* _worker_tasks.clear() and _merge_worker_task = None.
StopGathered ==
    \E G \in co.gathers :
        /\ \A g \in G : WorkersEnded(co.gen[g])
        /\ co' = [co EXCEPT !.refs = {}, !.gathers = @ \ {G}]
        /\ UNCHANGED restartRest

\* SimpleGraph.submit_task: the task is put on the task queue.
SubmitCall ==
    /\ co.submitted < MaxLoad
    /\ co' = [co EXCEPT !.submitted = @ + 1, !.tq = @ + 1]
    /\ UNCHANGED restartRest

\* _worker: wait_for(task_queue.get()) returns a task; the worker starts
\* it and awaits _run_task.
ExtractTakes ==
    \E g \in Gens :
        /\ ~CancelPending
        /\ co.gen[g].get > 0
        /\ co.tq > 0
        /\ co' = [co EXCEPT !.tq = @ - 1,
                            !.gen[g].get = @ - 1,
                            !.gen[g].run = @ + 1]
        /\ UNCHANGED restartRest

\* _worker: _run_task returns (the task goes to the merge queue) or raises
\* (the task fails); the loop condition `while self._running` is read next.
ExtractEnds ==
    \E g \in Gens, ok \in BOOLEAN :
        /\ ~CancelPending
        /\ co.gen[g].run > 0
        /\ co' = [co EXCEPT !.mq = IF ok THEN @ + 1 ELSE @,
                            !.gen[g].run = @ - 1,
                            !.gen[g].get = IF co.running THEN @ + 1 ELSE @]
        /\ UNCHANGED restartRest

\* _worker receives the CancelledError.  Inside wait_for it reaches the outer
\* handler, which breaks.  Inside _run_task it reaches the inner handler,
\* which cancels the task and reports 'cancelled'; the loop then reads
\* _running again.
ExtractCancelled ==
    \E g \in Gens :
        /\ \/ /\ co.gen[g].get_c > 0
              /\ co' = [co EXCEPT !.gen[g].get_c = @ - 1]
           \/ /\ co.gen[g].run_c > 0
              /\ co' = [co EXCEPT !.gen[g].run_c = @ - 1,
                                  !.gen[g].get = IF co.running THEN @ + 1 ELSE @]
        /\ UNCHANGED restartRest

\* _worker: wait_for times out, the loop reads _running, finds it cleared
\* and returns.
ExtractTimesOut ==
    \E g \in Gens :
        /\ ~CancelPending
        /\ ~co.running
        /\ co.gen[g].get > 0
        /\ co' = [co EXCEPT !.gen[g].get = @ - 1]
        /\ UNCHANGED restartRest

\* _merge_worker: wait_for(merge_queue.get()) returns a task; the worker
\* awaits _auto_merge.
MergeTakes ==
    \E g \in Gens :
        /\ ~CancelPending
        /\ co.gen[g].merge = "get"
        /\ co.mq > 0
        /\ co' = [co EXCEPT !.mq = @ - 1, !.gen[g].merge = "merge"]
        /\ UNCHANGED restartRest

\* _merge_worker: the merge ends (applied or failed); the loop reads
\* _running.
MergeEnds ==
    \E g \in Gens :
        /\ ~CancelPending
        /\ co.gen[g].merge = "merge"
        /\ co' = [co EXCEPT !.gen[g].merge =
                                IF co.running THEN "get" ELSE "done"]
        /\ UNCHANGED restartRest

\* _merge_worker receives the CancelledError: `except Exception` does not
\* catch it, the outer handler breaks.
MergeCancelled ==
    \E g \in Gens :
        /\ co.gen[g].merge \in {"get_c", "merge_c"}
        /\ co' = [co EXCEPT !.gen[g].merge = "done"]
        /\ UNCHANGED restartRest

\* _merge_worker: wait_for times out, the loop reads _running, finds it
\* cleared and returns.
MergeTimesOut ==
    \E g \in Gens :
        /\ ~CancelPending
        /\ ~co.running
        /\ co.gen[g].merge = "get"
        /\ co' = [co EXCEPT !.gen[g].merge = "done"]
        /\ UNCHANGED restartRest

NextRestart ==
    \/ StartCall
    \/ StopCancels
    \/ StopGathered
    \/ SubmitCall
    \/ ExtractTakes
    \/ ExtractEnds
    \/ ExtractCancelled
    \/ ExtractTimesOut
    \/ MergeTakes
    \/ MergeEnds
    \/ MergeCancelled
    \/ MergeTimesOut

SpecRestart == Init /\ [][NextRestart]_vars

(***************************************************************************)
(* Properties of the worker pool.                                          *)
(***************************************************************************)
RECURSIVE ExtractingUpTo(_, _)
ExtractingUpTo(c, g) ==
    IF g = 0 THEN 0
    ELSE c.gen[g].run + c.gen[g].run_c + ExtractingUpTo(c, g - 1)

InExtractPhase(c) == ExtractingUpTo(c, MaxRestarts)

Created(c) == {g \in Gens : c.gen[g].merge # "none"}

\* C22: at any moment at most max_concurrent_tasks tasks are in the extract
\* phase, and a start() that finds the coordinator running creates no
\* workers.
C22_BoundedExtract ==
    [][/\ InExtractPhase(co') <= max_concurrent_tasks
       /\ co.running => Created(co') = Created(co)]_vars


\* The merge worker loops that are alive and have no CancelledError on its
\* way to them, and those inside _auto_merge.
MergeLoops == {g \in Gens : co.gen[g].merge \in {"get", "merge"}}

Merging == {g \in Gens : co.gen[g].merge \in {"merge", "merge_c"}}

\* C23: for every interleaving of start() and stop(), a start() during the
\* await of stop() included, at most one merge worker loop is alive, so two
\* merges never run at the same time.
C23_OneMergeWorker ==
    Cardinality(MergeLoops) <= 1 /\ Cardinality(Merging) <= 1


(***************************************************************************)
(* Order of the merges.  Two tasks whose extraction ended hold the deltas   *)
(* d1 and d2; the order in which they reach the merge queue is the order    *)
(* in which _apply_merge_result sees them.                                  *)
(***************************************************************************)
MergedInOrder(sys, g, d1, d2) ==
    LET r1 == apply_merge_result(sys, g, d1)
    IN  apply_merge_result(r1.system, r1.graph, d2)

\* The delta names only classes that it defines itself or the catalog
\* defines, and only endpoints that it brings itself or the graph holds.
DeltaNames(d) == {Upper(d.entities[i].name) : i \in DOMAIN d.entities}

SelfContained(sys, g, d) ==
    /\ EntitiesBuildable(ApplyClassDeltas(sys, d.classes), d.entities)
    /\ \A i \in DOMAIN d.relationships :
          /\ Upper(d.relationships[i].source)
                \in DOMAIN g.entities \cup DeltaNames(d)
          /\ Upper(d.relationships[i].target)
                \in DOMAIN g.entities \cup DeltaNames(d)

\* The graph up to the letter case of the stored names: the classes per
\* entity key and the count per relationship identity key.
ClassesByKey(g) == [k \in DOMAIN g.entities |-> g.entities[k].classes]

CountsByKey(g) == {<<Key(r), r.count>> : r \in g.relationships}

\* C24 (as claimed): for a fixed set of tasks the final canonical graph
\* (entities, relationships and their counts) is the same for every order in
\* which the tasks reach the merge queue: merging the delta of this step and
\* then any other delta gives what merging them the other way round gives.
C24_AsClaimed ==
    [][ret'.op = "apply" =>
          \A d2 \in DeltaInputs :
              LET ab == MergedInOrder(systems[0], graph, ret'.arg, d2).graph
                  ba == MergedInOrder(systems[0], graph, d2, ret'.arg).graph
              IN  /\ ab.entities = ba.entities
                  /\ ab.relationships = ba.relationships]_vars

\* C24 (amended): for two deltas that are self-contained with respect to the
\* store before the merges, both merge orders give the same entity keys with
\* the same classes and the same relationship identity keys with the same
\* counts.  (The second merge has to fit into the run: ret'.n < MaxStoreOps.)
C24_MergeOrderIrrelevant ==
    [][(/\ ret'.op = "apply"
        /\ ret'.n < MaxStoreOps
        /\ SelfContained(systems[0], graph, ret'.arg)) =>
          \A d2 \in {d \in DeltaInputs : SelfContained(systems[0], graph, d)} :
              LET ab == MergedInOrder(systems[0], graph, ret'.arg, d2)
                  ba == MergedInOrder(systems[0], graph, d2, ret'.arg)
              IN  /\ ab.ok /\ ba.ok
                  /\ ClassesByKey(ab.graph) = ClassesByKey(ba.graph)
                  /\ CountsByKey(ab.graph) = CountsByKey(ba.graph)]_vars

\* Two merges were applied, the later one brought entity c in lower case, and
\* the stored name is the upper-case one of the earlier merge.
C24_Witness ==
    /\ ret.op = "apply"
    /\ ret.ok
    /\ ret.n >= 2
    /\ Len(ret.arg.entities) = 1
    /\ ret.arg.entities[1].name = "c"
    /\ "C" \in DOMAIN graph.entities
    /\ graph.entities["C"].name = "C"


(***************************************************************************)
(* Class-instance nodes.                                                   *)
(***************************************************************************)
\* C25: after any sequence of operations that create or update entities, for
\* every entity e of the graph and every class c that e carries, the
\* class-instance node 'e:c' exists.
C25_ClassNodesMaterialized ==
    \A k \in DOMAIN graph.entities :
        \A c \in graph.entities[k].classes :
            <<k, Upper(c)>> \in graph.class_nodes


(***************************************************************************)
(* Missing endpoints.                                                      *)
(***************************************************************************)
\* The name is no entity, no class-instance node and no class of the System.
Absent(node) ==
    /\ Upper(node) \notin DOMAIN graph.entities
    /\ \A n \in graph.class_nodes : Upper(node) # n[1] \o ":" \o n[2]
    /\ Upper(node) \notin DOMAIN systems[0]

\* C26: Graph.add_relationship with a source or a target that is neither an
\* entity, nor a class-instance node, nor a class of the System fails with an
\* error and leaves the relationship set, every count and the adjacency map
\* as they were.
C26_MissingEndpointIsError ==
    [][(/\ ret'.op = "add_relationship"
        /\ Absent(ret'.arg.source) \/ Absent(ret'.arg.target)) =>
          /\ ~ret'.ok
          /\ graph'.relationships = graph.relationships
          /\ graph'.adj = graph.adj]_vars

\* A call with the missing source c was refused while the graph holds
\* relationships.
C26_Witness ==
    /\ ret.op = "add_relationship"
    /\ ~ret.ok
    /\ ret.arg.source = "c"
    /\ graph.relationships # {}


(***************************************************************************)
(* SearchEngine (src/search/search_engine.py).  A text is a sequence of    *)
(* characters; an optional value is a sequence of length 0 or 1.           *)
(***************************************************************************)
\* str.lower, character by character
LowerChar(ch) ==
    CASE ch = "A" -> "a"
      [] ch = "B" -> "b"
      [] OTHER -> ch

Lower(text) == [i \in DOMAIN text |-> LowerChar(text[i])]

\* `keyword in text` of Python strings
Contains(keyword, text) ==
    \E i \in 0 .. (Len(text) - Len(keyword)) :
        SubSeq(text, i + 1, i + Len(keyword)) = keyword

StartsWith(text, keyword) ==
    /\ Len(keyword) <= Len(text)
    /\ SubSeq(text, 1, Len(keyword)) = keyword

\* SearchEngine._match
match(keyword, text, fuzzy) ==
    IF text = << >> THEN FALSE
    ELSE IF fuzzy THEN Contains(Lower(keyword), Lower(text))
         ELSE Lower(keyword) = Lower(text)

\* SearchEngine._calculate_score, in thousandths
calculate_score(keyword, text, fuzzy) ==
    IF text = << >> THEN 0
    ELSE IF ~fuzzy THEN (IF Lower(keyword) = Lower(text) THEN 1000 ELSE 0)
    ELSE IF Lower(keyword) = Lower(text) THEN 1000
    ELSE IF StartsWith(Lower(text), Lower(keyword)) THEN 900
    ELSE LET base_score == (2000 * Len(keyword)) \div Len(text)
         IN  IF base_score < 800 THEN base_score ELSE 800

\* A SearchResult: type, matched text, score and the context entries that
\* _deduplicate_results reads (absent entries are << >>).
NoContext ==
    [entity_name |-> << >>, node_id |-> << >>, class_name |-> << >>,
     source |-> << >>, target |-> << >>]

SearchResult(result_type, matched_text, context, score) ==
    [result_type |-> result_type, matched_text |-> matched_text,
     context |-> context, score |-> score]

\* Flattens a sequence of result lists (results.extend in a loop).
RECURSIVE Flatten(_)
Flatten(lists) ==
    IF lists = << >> THEN << >> ELSE Head(lists) \o Flatten(Tail(lists))

\* SearchEngine._search_entities: per entity a name hit and a description hit
search_entities(store, keyword, fuzzy) ==
    Flatten([i \in DOMAIN store.entities |->
        LET entity == store.entities[i] IN
        (IF match(keyword, entity.name, fuzzy)
         THEN <<SearchResult("entity_name", entity.name,
                             [NoContext EXCEPT !.entity_name = <<entity.name>>],
                             calculate_score(keyword, entity.name, fuzzy))>>
         ELSE << >>)
        \o
        (IF entity.description # << >>
            /\ match(keyword, entity.description, fuzzy)
         THEN <<SearchResult("entity_description", entity.description,
                             [NoContext EXCEPT !.entity_name = <<entity.name>>],
                             calculate_score(keyword, entity.description, fuzzy))>>
         ELSE << >>)])

\* The id of the class node of an entity: "entity_name:class_name".
NodeId(entity) == entity.name \o <<":">> \o entity.class_name

\* SearchEngine._search_class_nodes: the entities that carry a class have
\* one class node; a class node has no description of its own here.
search_class_nodes(store, keyword, fuzzy) ==
    Flatten([i \in DOMAIN store.entities |->
        LET entity == store.entities[i] IN
        IF entity.class_name # << >> /\ match(keyword, NodeId(entity), fuzzy)
        THEN <<SearchResult("class_node", NodeId(entity),
                            [NoContext EXCEPT
                                !.node_id = <<NodeId(entity)>>,
                                !.entity_name = <<entity.name>>,
                                !.class_name = <<entity.class_name>>],
                            calculate_score(keyword, NodeId(entity), fuzzy))>>
        ELSE << >>])

\* The class of the catalogs: one class with one property.
ClassName == <<"b">>
PropertyName == <<"a">>

\* SearchEngine._search_class_master_nodes: the class names of
\* self.graph.get_class_master_nodes(), which Graph derives from its own
\* System (the classes have no description here)
search_class_master_nodes(store, keyword, fuzzy) ==
    Flatten([i \in DOMAIN store.graph_system |->
        LET class_master == store.graph_system[i] IN
        IF match(keyword, class_master.name, fuzzy)
        THEN <<SearchResult("class_name", class_master.name,
                            [NoContext EXCEPT
                                !.class_name = <<class_master.name>>],
                            calculate_score(keyword, class_master.name,
                                            fuzzy))>>
        ELSE << >>])

\* SearchEngine._search_relationships: per relationship a description hit
\* and one hit per matching refer item
search_relationships(store, keyword, fuzzy) ==
    Flatten([i \in DOMAIN store.relationships |->
        LET relationship == store.relationships[i]
            ctx == [NoContext EXCEPT !.source = <<relationship.source>>,
                                     !.target = <<relationship.target>>]
        IN
        (IF match(keyword, relationship.description, fuzzy)
         THEN <<SearchResult("relationship_description",
                             relationship.description, ctx,
                             calculate_score(keyword, relationship.description,
                                             fuzzy))>>
         ELSE << >>)
        \o
        Flatten([j \in DOMAIN relationship.refer |->
            IF match(keyword, relationship.refer[j], fuzzy)
            THEN <<SearchResult("relationship_refer", relationship.refer[j], ctx,
                                calculate_score(keyword, relationship.refer[j],
                                                fuzzy))>>
            ELSE << >>])])

\* SearchEngine._search_properties: the property names of the class
\* definitions of self.system, then the property values of the entities of
\* self.graph
search_properties(store, keyword, fuzzy) ==
    Flatten([i \in DOMAIN store.system |->
        LET class_def == store.system[i] IN
        Flatten([j \in DOMAIN class_def.properties |->
            IF match(keyword, class_def.properties[j], fuzzy)
            THEN <<SearchResult("property_name", class_def.properties[j],
                                [NoContext EXCEPT
                                    !.class_name = <<class_def.name>>],
                                calculate_score(keyword, class_def.properties[j],
                                                fuzzy))>>
            ELSE << >>])])
    \o
    Flatten([i \in DOMAIN store.entities |->
        LET entity == store.entities[i] IN
        IF entity.class_name # << >> /\ entity.value # << >>
           /\ match(keyword, entity.value, fuzzy)
        THEN <<SearchResult("property_value", entity.value,
                            [NoContext EXCEPT
                                !.entity_name = <<entity.name>>,
                                !.class_name = <<entity.class_name>>],
                            calculate_score(keyword, entity.value, fuzzy))>>
        ELSE << >>])

\* _deduplicate_results, first loop: the higher-level items that were found.
found_entities(results) ==
    {results[i].context.entity_name[1] :
        i \in {j \in DOMAIN results :
                  /\ results[j].result_type = "entity_name"
                  /\ results[j].context.entity_name # << >>
                  /\ results[j].context.entity_name[1] # << >>}}

found_class_nodes(results) ==
    {results[i].context.node_id[1] :
        i \in {j \in DOMAIN results :
                  /\ results[j].result_type = "class_node"
                  /\ results[j].context.node_id # << >>
                  /\ results[j].matched_text = results[j].context.node_id[1]}}

found_class_masters(results) ==
    {results[i].context.class_name[1] :
        i \in {j \in DOMAIN results :
                  /\ results[j].result_type = "class_name"
                  /\ results[j].context.class_name # << >>}}

found_relationships(results) ==
    {<<results[i].context.source[1], results[i].context.target[1]>> :
        i \in {j \in DOMAIN results :
                  /\ results[j].result_type = "relationship_description"
                  /\ results[j].context.source # << >>
                  /\ results[j].context.target # << >>
                  /\ results[j].context.source[1] # << >>
                  /\ results[j].context.target[1] # << >>}}

\* _deduplicate_results, second loop: should_keep for one result.
should_keep(results, result) ==
    CASE result.result_type \in {"entity_description", "property_value"} ->
            ~(/\ result.context.entity_name # << >>
              /\ result.context.entity_name[1] \in found_entities(results))
      [] result.result_type = "class_node" ->
            ~(/\ result.context.node_id # << >>
              /\ result.context.node_id[1] \in found_class_nodes(results)
              /\ result.matched_text # result.context.node_id[1])
      [] result.result_type = "class_description" ->
            ~(/\ result.context.class_name # << >>
              /\ result.context.class_name[1] \in found_class_masters(results))
      [] result.result_type = "relationship_refer" ->
            ~(/\ result.context.source # << >>
              /\ result.context.target # << >>
              /\ <<result.context.source[1], result.context.target[1]>>
                    \in found_relationships(results))
      [] OTHER -> TRUE

\* SearchEngine._deduplicate_results kept as a list in the order found
\* (deduplicate_results_off: nothing is removed).
deduplicate_results_off(results) == results

deduplicate_results(results) ==
    SelectSeq(results, LAMBDA result : should_keep(results, result))

\* results.sort(key=lambda x: x.score, reverse=True): a stable sort, the
\* results of equal score keep their order
RECURSIVE sort_by_score(_)
sort_by_score(results) ==
    IF results = << >> THEN << >>
    ELSE LET best == CHOOSE i \in DOMAIN results :
                        /\ \A j \in DOMAIN results :
                              results[j].score <= results[i].score
                        /\ \A j \in 1 .. (i - 1) :
                              results[j].score < results[i].score
         IN  <<results[best]>>
             \o sort_by_score(SubSeq(results, 1, best - 1)
                              \o SubSeq(results, best + 1, Len(results)))

\* SearchEngine.search_keyword; limit 0 stands for None (`if limit:`)
search_keyword(store, keyword, fuzzy, limit) ==
    LET results == search_entities(store, keyword, fuzzy)
                   \o search_class_nodes(store, keyword, fuzzy)
                   \o search_class_master_nodes(store, keyword, fuzzy)
                   \o search_relationships(store, keyword, fuzzy)
                   \o search_properties(store, keyword, fuzzy)
        sorted == sort_by_score(deduplicate_results(results))
    IN  IF limit # 0 /\ limit < Len(sorted) THEN SubSeq(sorted, 1, limit)
        ELSE sorted

(***************************************************************************)
(* SpecSearch: graphs of at most two entities and two relationships, and   *)
(* the keyword searches on them.                                           *)
(***************************************************************************)
MaxLimit == 1        \* the largest limit given to search_keyword

SearchEntity(name, description, class_name, value) ==
    [name |-> name, description |-> description, class_name |-> class_name,
     value |-> value]

\* Entity a and entity Ab, each with or without a description, a class and a
\* property value.
EntityTexts(name) ==
    {SearchEntity(name, d, c[1], c[2]) :
        d \in {<< >>, <<"a">>, <<"b">>},
        c \in {<< << >>, << >> >>, <<ClassName, << >> >>,
               <<ClassName, <<"a", "b">> >>}}

EntityStores ==
    {<< >>}
    \cup {<<e>> : e \in EntityTexts(<<"a">>) \cup EntityTexts(<<"A", "b">>)}
    \cup {<<e1, e2>> : e1 \in EntityTexts(<<"a">>), e2 \in EntityTexts(<<"A", "b">>)}

\* Relationships a -> Ab that differ in description and refer.
RelationshipTexts ==
    {[source |-> <<"a">>, target |-> <<"A", "b">>, description |-> d,
      refer |-> rf] :
        d \in {<<"a">>, <<"b">>}, rf \in {<< >>, << <<"a">> >>}}

RelationshipStores ==
    {<< >>}
    \cup {<<r>> : r \in RelationshipTexts}
    \cup {<<r1, r2>> : r1 \in {r \in RelationshipTexts : r.description = <<"a">>},
                       r2 \in {r \in RelationshipTexts : r.description = <<"b">>}}

Keywords == {<<"a">>, <<"B">>, <<"a", "b">>}

\* The class catalog of the graphs searched.
Catalog == <<[name |-> ClassName, properties |-> <<PropertyName>>]>>

InitSearch ==
    /\ PipelineInit /\ StoreInit /\ ServiceInit(FALSE)
    /\ \E es \in EntityStores, rs \in RelationshipStores :
          search = NoSearch([entities |-> es, relationships |-> rs,
                             graph_system |-> Catalog, system |-> Catalog])

\* One call of search_keyword(keyword, fuzzy, limit).
SearchKeyword ==
    /\ \E keyword \in Keywords, fuzzy \in BOOLEAN, limit \in 0 .. MaxLimit :
          search' = [search EXCEPT
                        !.op = "search_keyword",
                        !.keyword = keyword,
                        !.fuzzy = fuzzy,
                        !.limit = limit,
                        !.results = search_keyword(search.store, keyword,
                                                   fuzzy, limit)]
    /\ UNCHANGED <<systems, graph, tasks, task_queue, merge_queue, running,
                   procs, events, hist, ret, relSum, svc, co>>

NextSearch == SearchKeyword

SpecSearch == InitSearch /\ [][NextSearch]_vars

\* C27: if the keyword matches an entity's name, the list search_keyword
\* returns for it holds no entity_description result and no property_value
\* result whose context names that entity.
C27_NameHitHidesOwnTexts ==
    search.op = "search_keyword" =>
        \A i \in DOMAIN search.store.entities :
            match(search.keyword, search.store.entities[i].name, search.fuzzy)
            => \A j \in DOMAIN search.results :
                  search.results[j].result_type
                      \in {"entity_description", "property_value"}
                  => search.results[j].context.entity_name
                        # <<search.store.entities[i].name>>

\* A search whose keyword matched the name of entity Ab and also its
\* description and its property value, and that returned results.
C27_Witness ==
    /\ search.op = "search_keyword"
    /\ search.results # << >>
    /\ \E i \in DOMAIN search.store.entities :
          LET e == search.store.entities[i] IN
          /\ e.name = <<"A", "b">>
          /\ match(search.keyword, e.name, search.fuzzy)
          /\ match(search.keyword, e.description, search.fuzzy)
          /\ match(search.keyword, e.value, search.fuzzy)


(***************************************************************************)
(* Status 'completed' and the merge.                                       *)
(***************************************************************************)
\* C28: whenever the status of a task reads 'completed' (get_task_status),
\* its delta has been applied to the canonical store; a task with nothing to
\* merge has nothing to apply.
C28_CompletedMeansMerged ==
    \A t \in TaskIds :
        tasks[t].status = "completed" =>
            \/ AutoMergeSkips(tasks[t])
            \/ hist.applied[t] # << >>


(***************************************************************************)
(* Failed merges.                                                          *)
(***************************************************************************)
\* The step is the one in which _apply_merge_result is called for t and
\* raises.
MergeRaises(t) ==
    /\ hist.applied[t] = << >>
    /\ hist'.applied[t] # << >>
    /\ ~apply_merge_result(systems[0], graph, hist'.applied[t][1]).ok

\* C29: when the merge of a task raises, the status of the task becomes
\* 'failed' and 'merge_failed' is delivered for it; the task never has a
\* 'completed' event nor an auto-save; the merge worker is back at the head
\* of its loop with the merge queue as it was, so it goes on with the tasks
\* queued behind.
C29_MergeFailureIsContained ==
    /\ [][\A t \in TaskIds :
             MergeRaises(t) =>
                 /\ tasks'[t].status = "failed"
                 /\ Last(events'[t]) = "merge_failed"
                 /\ t \notin procs'.merging
                 /\ running => procs'.merge_idle = procs.merge_idle + 1
                 /\ merge_queue' = merge_queue]_vars
    /\ [](\A t \in TaskIds :
             Has(t, "merge_failed") =>
                 /\ tasks[t].status = "failed"
                 /\ ~Has(t, "completed")
                 /\ svc.saves[t] = "none")

\* The merge of one task failed, and the task that was queued behind it was
\* merged and completed afterwards, with its auto-save written.
C29_Witness ==
    \E t, u \in TaskIds :
        /\ Has(t, "merge_failed")
        /\ hist.merging = <<t, u>>
        /\ Has(u, "completed")
        /\ svc.saves[u] = "auto_save"


(***************************************************************************)
(* increment_count records without a positive amount.                      *)
(***************************************************************************)
\* The count the graph holds under the identity key of a record (0: none).
CountUnder(g, rec) ==
    LET same == {e \in g.relationships :
                    Key(e) = <<Upper(rec.source), Upper(rec.target),
                               rec.description, ReferSet(Get(rec.refer, << >>))>>}
    IN  IF same = {} THEN 0 ELSE (CHOOSE e \in same : TRUE).count

InvalidIncrement(rec) ==
    /\ Get(rec.operation, "add") = "increment_count"
    /\ Get(rec.increment_amount, 0) <= 0

\* C30: a relationship record of the smart-merge reply with operation
\* increment_count and an increment_amount that is not strictly positive is
\* downgraded to an add: when its endpoints are in the graph, the merge adds
\* the record's own count (at least 1) under its identity key instead of
\* dropping the record.
C30_InvalidIncrementIsAdded ==
    [][(ret'.op = "apply" /\ "reply" \in DOMAIN ret') =>
          \A i \in DOMAIN ret'.reply.optimized_relationships :
              LET rec == ret'.reply.optimized_relationships[i] IN
              (/\ InvalidIncrement(rec)
               /\ Upper(rec.source) \in DOMAIN graph'.entities
               /\ Upper(rec.target) \in DOMAIN graph'.entities)
              => /\ ret'.ok
                 /\ ret'.arg.relationships[i].operation = "add"
                 /\ CountUnder(graph', rec)
                       = CountUnder(graph, rec) + Max(MinCount, Get(rec.count, 1))]_vars

\* A reply record increment_count with amount 0 and count 3 for a -> c was
\* merged onto a relationship that was there: the count is above 3.
C30_Witness ==
    /\ ret.op = "apply"
    /\ "reply" \in DOMAIN ret
    /\ InvalidIncrement(ret.reply.optimized_relationships[1])
    /\ ret.reply.optimized_relationships[1].target = "c"
    /\ CountUnder(graph, ret.reply.optimized_relationships[1]) > 3

(***************************************************************************)
(* C31: a smart-merge reply that cannot be parsed.                         *)
(***************************************************************************)
\* The merge of t ended, and the reply of the completion service for it was
\* not JSON.
Unparsable(t) ==
    /\ hist.replies[t] # << >>
    /\ hist.replies[t][1] = "unparsable"

\* C31: when the reply of the completion service cannot be parsed, the merge
\* result is the simple merge's: the optimized delta is the task's own delta
\* and every merge counter is 0; the delta is applied and the task ends with
\* 'completed' and status completed, not with 'merge_failed' and failed.
C31_UnparsableReplyFallsBack ==
    \A t \in TaskIds :
        Unparsable(t) =>
            /\ hist.replies[t][2] =
                   MergeResult(tasks[t].result_delta[1], 0, 0, 0, 0)
            /\ hist.applied[t] = tasks[t].result_delta
            /\ Has(t, "completed")
            /\ ~Has(t, "merge_failed")
            /\ tasks[t].status = "completed"

\* A task whose delta brings a relationship was merged after an unparsable
\* reply, and the relationship is in the canonical graph.
C31_Witness ==
    \E t \in TaskIds :
        /\ Unparsable(t)
        /\ tasks[t].result_delta[1].relationships # << >>
        /\ graph.relationships # InitialGraph.relationships

(***************************************************************************)
(* C32: refer hits of a relationship whose description did not match.      *)
(***************************************************************************)
\* The list returned holds a relationship_refer result for that refer entry
\* of a relationship from source to target.
ReferHitKept(relationship, refer_item) ==
    \E k \in DOMAIN search.results :
        /\ search.results[k].result_type = "relationship_refer"
        /\ search.results[k].matched_text = refer_item
        /\ search.results[k].context.source = <<relationship.source>>
        /\ search.results[k].context.target = <<relationship.target>>

\* C32: in a keyword search without limit, a refer entry that matches the
\* keyword is in the results whenever the description of its own
\* relationship does not match the keyword, whatever other relationships
\* between the same source and target matched.
C32_ReferHitOfUnmatchedRelationshipKept ==
    (search.op = "search_keyword" /\ search.limit = 0) =>
        \A i \in DOMAIN search.store.relationships :
            LET relationship == search.store.relationships[i] IN
            \A j \in DOMAIN relationship.refer :
                (/\ match(search.keyword, relationship.refer[j], search.fuzzy)
                 /\ ~match(search.keyword, relationship.description,
                           search.fuzzy))
                    => ReferHitKept(relationship, relationship.refer[j])

(***************************************************************************)
(* C33: the semantic time of an extracted relationship.                    *)
(***************************************************************************)
\* The task's delta was merged by the simple merge and the merge succeeded.
SimplyMerged(t) ==
    /\ hist.replies[t] # << >>
    /\ hist.replies[t][1] = "simple"
    /\ Has(t, "completed")

\* C33: after a task whose extraction parsed a relationship with a semantic
\* time was merged by the simple merge, the canonical graph holds that
\* relationship with that semantic time among its semantic_times.
C33_SemanticTimeCarried ==
    \A t \in TaskIds :
        (SimplyMerged(t) /\ tasks[t].result_delta[1].relationships # << >>) =>
            LET parsed == ExtractedRelationships("records") IN
            \A i \in DOMAIN parsed :
                \A k \in DOMAIN parsed[i].semantic_times :
                    \E r \in graph.relationships :
                        /\ RelEq(r, parsed[i])
                        /\ \E m \in DOMAIN r.semantic_times :
                              r.semantic_times[m] = parsed[i].semantic_times[k]

(***************************************************************************)
(* C34: relationship counts stay at 1 or above.                            *)
(***************************************************************************)
\* The count kept under an identity key (0 when the graph has none).
CountOf(g, key) ==
    LET rs == {r \in g.relationships : Key(r) = key} IN
    IF rs = {} THEN 0 ELSE (CHOOSE r \in rs : TRUE).count

\* C34: every relationship in the graph has a count of at least 1, and no
\* operation on the graph other than replacing it by a loaded file lowers
\* the count kept under an identity key.
C34_CountAtLeastOne ==
    /\ [](\A r \in graph.relationships : r.count >= MinCount)
    /\ [][ret'.op # "load" =>
             \A r \in graph.relationships :
                 CountOf(graph', Key(r)) >= r.count]_vars

\* A reply whose record carries the count 0 was merged, and the graph holds
\* the relationship with count 1.
C34_Witness ==
    /\ ret.op = "apply"
    /\ "reply" \in DOMAIN ret
    /\ \E i \in DOMAIN ret.reply.optimized_relationships :
          /\ ret.reply.optimized_relationships[i].count = <<0>>
          /\ \E r \in graph.relationships :
                /\ IncrementMatch(r, ret.arg.relationships[i])
                /\ r.count = MinCount

(***************************************************************************)
(* C35: a delta is applied at most once.                                   *)
(***************************************************************************)
\* How often x occurs in the sequence s.
Occurrences(s, x) == Cardinality({i \in DOMAIN s : s[i] = x})

\* The tasks whose delta has been applied.
AppliedTasks == {t \in TaskIds : hist.applied[t] # << >>}

\* C35: a task is started by one extract worker at most once, enters the
\* merge queue at most once and is taken from it at most once;
\* _apply_merge_result is called for it only when it was not called for it
\* before; and the count of a relationship in the canonical graph is at most
\* the sum of the counts that the applied deltas carry for it.
C35_DeltaAppliedAtMostOnce ==
    /\ [](\A t \in TaskIds :
            /\ Occurrences(events[t], "started") <= 1
            /\ Cardinality({w \in procs.busy : w.task = t}) <= 1
            /\ Occurrences(task_queue, t) <= 1
            /\ Occurrences(hist.enqueued, t) <= 1
            /\ Occurrences(merge_queue, t) <= 1
            /\ Occurrences(hist.merging, t) <= 1)
    /\ [](\A r \in graph.relationships :
            r.count <= Cardinality({t \in AppliedTasks :
                \E i \in DOMAIN hist.applied[t][1].relationships :
                    IncrementMatch(r, hist.applied[t][1].relationships[i])}))
    /\ [][\A t \in TaskIds :
            /\ (t \in procs.merging /\ t \notin procs'.merging) =>
                    hist.applied[t] = << >>
            /\ hist'.applied[t] # hist.applied[t] =>
                    (t \in procs.merging /\ t \notin procs'.merging)]_vars

\* Two tasks brought the same relationship, both were merged, and its count
\* is 2.
C35_Witness ==
    /\ AppliedTasks = TaskIds
    /\ \E r \in graph.relationships : r.count = Cardinality(TaskIds)

(***************************************************************************)
(* C36: who cancels a task.                                                *)
(***************************************************************************)
\* C36: a task has status cancelled, or the label 'cancelled', only if
\* cancel_task was called for it; a stop() of the coordinator while the task
\* is being extracted does not make it a cancelled task.
C36_CancelledOnlyByRequest ==
    \A t \in TaskIds :
        (tasks[t].status = "cancelled" \/ Has(t, "cancelled")) =>
            t \in hist.cancel_ok \cup hist.refused

(***************************************************************************)
(* SpecLoad: SimpleGraph.load and Graph.load with the objects they create. *)
(* search.graphs and search.systems are the Graph and System objects in    *)
(* the order of their creation; a Graph holds the id of its System         *)
(* (system) and the id of the System its own SearchEngine took at          *)
(* construction (engine_system).  search.sg holds the references of the    *)
(* SimpleGraph instance in use: its graph, its system and the graph whose  *)
(* SearchEngine it kept as search_engine.                                  *)
(***************************************************************************)
MaxLoads == 2        \* SimpleGraph.load calls

\* System.from_config_file: the catalog of the configuration file.
ConfigCatalog == << >>

\* Graph.__init__ (graph.py 30-49) for a System object sid: no texts, and
\* SearchEngine(self) takes graph.system, which is sid at that moment.
NewGraph(sid) ==
    [entities |-> << >>, relationships |-> << >>, system |-> sid,
     engine_system |-> sid]

\* What the SearchEngine of graph gid reads (search_engine.py 230-231):
\* self.graph is the graph, self.system the System taken at construction.
EngineView(s, gid) ==
    [entities |-> s.graphs[gid].entities,
     relationships |-> s.graphs[gid].relationships,
     graph_system |-> s.systems[s.graphs[gid].system],
     system |-> s.systems[s.graphs[gid].engine_system]]

\* Graph.save: the System of the graph, the entities and the relationships.
save_texts(s, gid) ==
    [system |-> s.systems[s.graphs[gid].system],
     entities |-> s.graphs[gid].entities,
     relationships |-> s.graphs[gid].relationships]

\* Graph.load (graph.py 528-578): cls(system=System()) builds the graph and
\* its SearchEngine on an empty System; graph.system is then replaced by
\* System.from_dict(data["system"]); entities and relationships are read.
graph_load_objects(s, file) ==
    LET empty == Len(s.systems) + 1
        loaded == Len(s.systems) + 2
    IN  [s EXCEPT
            !.systems = @ \o << << >>, file.system >>,
            !.graphs = Append(@, [NewGraph(empty) EXCEPT
                                     !.system = loaded,
                                     !.entities = file.entities,
                                     !.relationships = file.relationships])]

\* SimpleGraph.__init__ (simplegraph.py 124-153): a System from the
\* configuration, a Graph on it, search_engine = self.graph._search_engine.
simplegraph_init(s) ==
    LET sid == Len(s.systems) + 1
        gid == Len(s.graphs) + 1
    IN  [s EXCEPT
            !.systems = Append(@, ConfigCatalog),
            !.graphs = Append(@, NewGraph(sid)),
            !.sg = [graph |-> gid, system |-> sid, search_engine |-> gid]]

\* SimpleGraph.load (simplegraph.py 395-433): a new instance, then
\* instance.graph = Graph.load(path), instance.system = instance.graph.system
\* and a new Combiner; instance.search_engine is left as __init__ set it.
simplegraph_load(s, file) ==
    LET instance == graph_load_objects(simplegraph_init(s), file)
        gid == Len(instance.graphs)
    IN  [instance EXCEPT
            !.sg.graph = gid,
            !.sg.system = instance.graphs[gid].system]

\* The entities that merges bring, and the class that a merge or the
\* service adds to the catalog.
LoadEntities ==
    {SearchEntity(<<"a">>, << >>, << >>, << >>),
     SearchEntity(<<"A", "b">>, <<"a">>, ClassName, <<"a">>)}

InitLoad ==
    /\ PipelineInit /\ StoreInit /\ ServiceInit(FALSE)
    /\ search = simplegraph_init(
                    NoSearch(NoStore) @@
                    [graphs |-> << >>, systems |-> << >>,
                     sg |-> [graph |-> 0, system |-> 0, search_engine |-> 0],
                     file |-> << >>, loads |-> 0])

loadRest ==
    <<systems, graph, tasks, task_queue, merge_queue, running, procs, events,
      hist, ret, relSum, svc, co>>

\* _apply_merge_result on the instance: self.system gains the class of the
\* delta and the Combiner adds the entity to self.graph.
LMerge ==
    /\ \E entity \in LoadEntities :
        LET g == search.graphs[search.sg.graph]
            sys == search.systems[search.sg.system]
        IN
        /\ \A i \in DOMAIN g.entities : g.entities[i].name # entity.name
        /\ search' = [search EXCEPT
              !.op = "merge",
              !.results = << >>,
              !.systems[search.sg.system] =
                  IF entity.class_name # << >> /\ sys = << >>
                  THEN Catalog ELSE sys,
              !.graphs[search.sg.graph].entities = Append(@, entity)]
    /\ UNCHANGED loadRest

\* SimpleGraph.save(path)
LSave ==
    /\ search' = [search EXCEPT
          !.op = "save",
          !.results = << >>,
          !.file = <<save_texts(search, search.sg.graph)>>]
    /\ UNCHANGED loadRest

\* SimpleGraph.load(config_path, graph_path) for the file saved last
LLoad ==
    /\ search.file # << >>
    /\ search.loads < MaxLoads
    /\ search' = [simplegraph_load(search, search.file[1]) EXCEPT
          !.op = "load",
          !.results = << >>,
          !.loads = @ + 1]
    /\ UNCHANGED loadRest

\* SimpleGraph.search_keyword: self.search_engine.search_keyword(...)
LSearch ==
    /\ \E keyword \in Keywords, fuzzy \in BOOLEAN :
        LET store == EngineView(search, search.sg.search_engine) IN
        search' = [search EXCEPT
            !.op = "search_keyword",
            !.store = store,
            !.keyword = keyword,
            !.fuzzy = fuzzy,
            !.limit = 0,
            !.results = search_keyword(store, keyword, fuzzy, 0)]
    /\ UNCHANGED loadRest

\* graph._search_engine.search_keyword on the instance's graph, as
\* SmartMerger._search_related_data_for_delta calls it (smart_merger.py 303)
LGraphSearch ==
    /\ \E keyword \in Keywords, fuzzy \in BOOLEAN :
        LET store == EngineView(search, search.sg.graph) IN
        search' = [search EXCEPT
            !.op = "graph_search",
            !.store = store,
            !.keyword = keyword,
            !.fuzzy = fuzzy,
            !.limit = 0,
            !.results = search_keyword(store, keyword, fuzzy, 0)]
    /\ UNCHANGED loadRest

NextLoad == LMerge \/ LSave \/ LLoad \/ LSearch \/ LGraphSearch

SpecLoad == InitLoad /\ [][NextLoad]_vars

\* C37: after SimpleGraph.load, a keyword search of the coordinator finds
\* every entity of the coordinator's graph whose name matches the keyword:
\* the entities that were in the file and those merged since.
C37_SearchObservesLoadedGraph ==
    (search.op = "search_keyword" /\ search.loads > 0) =>
        LET g == search.graphs[search.sg.graph] IN
        \A i \in DOMAIN g.entities :
            match(search.keyword, g.entities[i].name, search.fuzzy) =>
                \E k \in DOMAIN search.results :
                    /\ search.results[k].result_type = "entity_name"
                    /\ search.results[k].matched_text = g.entities[i].name

\* C38: after Graph.load, a keyword search through the SearchEngine of the
\* loaded graph gives a property_name hit for every property of the graph's
\* System whose name matches the keyword, as the engine of the graph that
\* was saved did.
C38_LoadedEngineReadsLoadedSystem ==
    (search.op = "graph_search" /\ search.loads > 0) =>
        LET sys == search.systems[search.graphs[search.sg.graph].system] IN
        \A i \in DOMAIN sys :
            \A j \in DOMAIN sys[i].properties :
                match(search.keyword, sys[i].properties[j], search.fuzzy) =>
                    \E k \in DOMAIN search.results :
                        /\ search.results[k].result_type = "property_name"
                        /\ search.results[k].matched_text = sys[i].properties[j]
                        /\ search.results[k].context.class_name = <<sys[i].name>>


(***************************************************************************)
(* C39.  Extraction Step 0 and the canonical System.                       *)
(***************************************************************************)
\* Task t was merged: _apply_merge_result returned and 'completed' was sent.
Merged(t) == hist.applied[t] # << >> /\ Has(t, "completed")

\* The property values the extraction of task t put into its delta, each with
\* the name of its entity: <<name, <<class_name, property_name, value>>>>.
ExtractedValues(t) ==
    LET entities == tasks[t].result_delta[1].entities IN
    UNION {{<<entities[i].name, p>> : p \in entities[i].properties} :
              i \in DOMAIN entities}

\* The value x is on its entity in the canonical graph, under a property the
\* canonical System declares.
CarriedValue(x) ==
    /\ Upper(x[2][1]) \in DOMAIN systems[0]
    /\ x[2][2] \in systems[0][Upper(x[2][1])]
    /\ Upper(x[1]) \in DOMAIN graph.entities
    /\ x[2] \in graph.entities[Upper(x[1])].properties

\* C39: once a task is merged, every value its extraction set (those of the
\* properties that Step 0 added to the task's snapshot among them) is on the
\* merged entity in the canonical graph, under a property that the canonical
\* System declares.
C39_Step0PropertyCarried ==
    \A t \in TaskIds : Merged(t) => \A x \in ExtractedValues(t) : CarriedValue(x)


(***************************************************************************)
(* C40.  GraphService.task_progress (graph_service.py 76-102).             *)
(***************************************************************************)
\* _on_progress lines 92-101: the progress record that the callback builds
\* for one step
progress_info(task_id, step) ==
    [event_type |-> "progress", task_id |-> task_id, step |-> step,
     status |-> IF step \notin {"completed", "failed"} THEN "running" ELSE step]

\* self.task_progress (line 102).  The callback runs inside _notify_progress
\* for every label and overwrites the record of the task: the record of a
\* task is the one built for the latest label delivered for it, and a task
\* without a label has none.
task_progress ==
    [t \in {u \in TaskIds : events[u] # << >>} |->
        progress_info(t, Last(events[t]))]

\* C40: with the service's callback attached, once a terminal label
\* (completed, failed, cancelled or merge_failed) was delivered for a task,
\* the service's progress record of the task does not say 'running'.
C40_TerminalProgressNotRunning ==
    svc.attached =>
        \A t \in TaskIds :
            Ended(t) => /\ t \in DOMAIN task_progress
                        /\ task_progress[t].status # "running"

====
